---- MODULE Spec2Model ----
(***************************************************************************)
(* Call/session correlation and intake ingestion of the RQAI repository.   *)
(*                                                                         *)
(* The state is the PostgreSQL database the route handlers share (the      *)
(* tables contacts, temp_calls, call_log, intake_responses and the SERIAL  *)
(* sequences behind their ids), the transcript-parser tasks in flight, the *)
(* clock behind NOW(), and the response of the request handled last.       *)
(*                                                                         *)
(* Every route handler is one action: it runs inside one database          *)
(* transaction (BEGIN .. COMMIT/ROLLBACK), so its statements take effect   *)
(* together or not at all.                                                 *)
(*                                                                         *)
(* Text is modelled as a sequence of characters (one-character strings),   *)
(* so that the code's string operations (replace, slice, LIKE, LOWER) are  *)
(* computed and not assumed.  A free-text value whose characters do not    *)
(* matter (a transcript, an answer) is a one-element sequence holding the  *)
(* whole text.                                                             *)
(*                                                                         *)
(* createTables creates only the tables that are missing, so the schema of  *)
(* the database is the environment's: it is either the one createTables    *)
(* creates, or one extended with the columns call_log.updated_at,          *)
(* intake_responses.updated_at and intake_responses.phone_number, which    *)
(* the statements of intakeRoutes.js and intakeAgentService.js name.  On   *)
(* the schema createTables creates, those statements fail.                 *)
(***************************************************************************)
EXTENDS Integers, Sequences, FiniteSets, TLC

VARIABLES
    contacts,          \* table contacts: rows [id, phone_number, user_id]
    contacts_seq,      \* last value of the SERIAL sequence of contacts.id
    temp_calls,        \* table temp_calls (Session Registry): rows [call_sid, phone_number, created_at]
    call_log,          \* table call_log: rows [call_sid, phone_number, status, processed]
    intake_responses,  \* table intake_responses
    intake_seq,        \* last value of the SERIAL sequence of intake_responses.id
    parserTasks,       \* processTranscriptAsync calls in flight: [id, raw_transcript]
    now,               \* the clock read by NOW() and Date.now(), in hours
    schema,            \* the columns the tables have: "created" or "extended"
    res,               \* the response to the request handled last
    conn               \* the call that holds or asks for a client: [state, impl, attempts,
                       \* lastError, error, held, released, exit, txn, http, row, calls]

vars == <<contacts, contacts_seq, temp_calls, call_log, intake_responses,
          intake_seq, parserTasks, now, schema, res, conn>>

db == <<contacts, contacts_seq, temp_calls, call_log, intake_responses, intake_seq,
        schema>>

-----------------------------------------------------------------------------
(* Bounds of the model *)

MaxIntake == 2      \* rows of intake_responses
MaxResolved == 1    \* rows of intake_responses in the specification of resolution
MaxTasks == 1       \* parser tasks in flight
MaxTime == 6        \* hours the clock runs

-----------------------------------------------------------------------------
(* Values *)

\* JavaScript undefined/null and SQL NULL of a text value
NULL == <<"NULL">>

\* SQL NULL of an integer column (ids are positive)
NULL_ID == 0

\* the empty string
EMPTY == <<>>

\* JavaScript truthiness of a text value: undefined, null and "" are falsy
Truthy(v) == v # NULL /\ v # EMPTY

\* a || b
Or(a, b) == IF Truthy(a) THEN a ELSE b

Digits == {"0", "1", "2", "3", "4", "5", "6", "7", "8", "9"}

\* phone numbers
PhoneE164 == <<"+", "1", "5", "5", "5", "1", "2", "3", "4", "5", "6", "7">>
PhoneDigits == <<"1", "5", "5", "5", "1", "2", "3", "4", "5", "6", "7">>
PhoneLast10 == <<"5", "5", "5", "1", "2", "3", "4", "5", "6", "7">>
PhoneOther == <<"+", "1", "5", "5", "5", "9", "8", "7", "6", "5", "4", "3">>
PhoneUnknown == <<"+", "1", "5", "5", "5", "0", "0", "0", "0", "0", "0", "0">>

\* session ids
SidA == <<"C", "A", "1", "2", "3">>
SidB == <<"C", "A", "9", "9", "9">>

\* free text
Transcript == <<"transcript">>
Answer == <<"answer">>
NotProvided == <<"Not provided">>
UserResponse == <<"userResponse">>

-----------------------------------------------------------------------------
(* String operations of JavaScript and SQL that the handlers use *)

\* s.slice(-n)
SliceLast(s, n) == IF Len(s) <= n THEN s ELSE SubSeq(s, Len(s) - n + 1, Len(s))

\* position of the first occurrence of pat in s, 0 if there is none
IndexOf(s, pat) ==
    LET hits == {i \in 1..(Len(s) - Len(pat) + 1) : SubSeq(s, i, i + Len(pat) - 1) = pat}
    IN  IF hits = {} THEN 0 ELSE CHOOSE i \in hits : \A j \in hits : i <= j

\* SQL: s LIKE '%pat%'
Like(s, pat) == pat = EMPTY \/ IndexOf(s, pat) # 0

\* s.replace(pat, rep) with a string pattern: the first occurrence only
ReplaceFirst(s, pat, rep) ==
    LET i == IndexOf(s, pat)
    IN  IF i = 0 THEN s
        ELSE SubSeq(s, 1, i - 1) \o rep \o SubSeq(s, i + Len(pat), Len(s))

\* s.replace(/^(\+)/, 'PLUS')
ReplaceLeadingPlus(s) ==
    IF Len(s) > 0 /\ s[1] = "+" THEN <<"P", "L", "U", "S">> \o Tail(s) ELSE s

IsDigit(c) == c \in Digits

\* s.replace(/[^0-9]/g, '')
StripNonDigits(s) == SelectSeq(s, IsDigit)

\* s.replace(/^(\+)/, 'PLUS').replace(/[^0-9]/g, '').replace('PLUS', '+')
NormalizePhone(s) ==
    ReplaceFirst(StripNonDigits(ReplaceLeadingPlus(s)), <<"P", "L", "U", "S">>, <<"+">>)

\* s.replace(/^\+/, '')
StripLeadingPlus(s) == IF Len(s) > 0 /\ s[1] = "+" THEN Tail(s) ELSE s

NotPlusOrDash(c) == c # "+" /\ c # "-"

\* SQL: REPLACE(REPLACE(s, '+', ''), '-', '')
ReplacePlusDash(s) == SelectSeq(s, NotPlusOrDash)

\* SQL LOWER on the letters session ids are made of
LowerChar(c) == CASE c = "A" -> "a" [] c = "C" -> "c" [] OTHER -> c

Lower(s) == [i \in 1..Len(s) |-> LowerChar(s[i])]

NotSpace(c) == c # " "

\* s.trim() === ''
TrimIsEmpty(s) == SelectSeq(s, NotSpace) = EMPTY

\* the character of a clock value, for `caller-${Date.now()}`
DigitChar(n) == <<"0", "1", "2", "3", "4", "5", "6", "7", "8", "9">>[(n % 10) + 1]

-----------------------------------------------------------------------------
(* Requests and responses *)

\* the body of a POST /receive-data request; a field the request lacks is NULL
EmptyBody ==
    [callSid |-> NULL, call_sid |-> NULL, caller |-> NULL, caller_id |-> NULL,
     phone_number |-> NULL, communication_style |-> NULL, values |-> NULL,
     professional_goals |-> NULL, partnership_expectations |-> NULL,
     raw_transcript |-> NULL, From |-> NULL, userResponse |-> NULL]

\* the response of a handler: HTTP status and the fields of the JSON body claims read
Response(op, req, status, error) ==
    [op |-> op, req |-> req, status |-> status, error |-> error,
     contact_id |-> NULL_ID, user_id |-> NULL_ID, intake_id |-> NULL_ID,
     normalized_phone |-> NULL]

\* the user id a valid bearer token decodes to
TokenUserId == 7

-----------------------------------------------------------------------------
(* Tables *)

Contact42 == [id |-> 42, phone_number |-> PhoneE164, user_id |-> 7]
Contact43 == [id |-> 43, phone_number |-> PhoneOther, user_id |-> 8]

\* call_log.status DEFAULT 'pending'
DefaultStatus == "pending"

\* INSERT INTO call_log (...) ON CONFLICT (call_sid) DO NOTHING
InsertCallLogDoNothing(log, sid, phone, status) ==
    IF \E r \in log : r.call_sid = sid THEN log
    ELSE log \cup {[call_sid |-> sid, phone_number |-> phone, status |-> status,
                    processed |-> FALSE]}

\* INSERT INTO call_log (...) ON CONFLICT (call_sid) DO UPDATE
\*   SET phone_number = $2, status = $3
UpsertCallLogPhoneAndStatus(log, sid, phone, status) ==
    {r \in log : r.call_sid # sid}
        \cup {[call_sid |-> sid, phone_number |-> phone, status |-> status,
               processed |-> FALSE]}

\* INSERT INTO call_log (...) ON CONFLICT (call_sid) DO UPDATE SET status = $3
UpsertCallLogStatus(log, sid, phone, status) ==
    IF \E r \in log : r.call_sid = sid
    THEN {IF r.call_sid = sid THEN [r EXCEPT !.status = status] ELSE r : r \in log}
    ELSE log \cup {[call_sid |-> sid, phone_number |-> phone, status |-> status,
                    processed |-> FALSE]}

\* DELETE FROM call_log WHERE call_sid = $1
MarkProcessedDeleting(log, sid) == {r \in log : r.call_sid # sid}

\* UPDATE call_log SET status = 'processed', processed_at = NOW() WHERE call_sid = $2
MarkProcessed(log, sid) ==
    {IF r.call_sid = sid THEN [r EXCEPT !.status = "processed", !.processed = TRUE] ELSE r :
        r \in log}

\* INSERT INTO temp_calls (...) ON CONFLICT (call_sid) DO UPDATE
\*   SET phone_number = $2, created_at = NOW()
UpsertTempCall(calls, sid, phone, t) ==
    {r \in calls : r.call_sid # sid}
        \cup {[call_sid |-> sid, phone_number |-> phone, created_at |-> t]}

\* SELECT phone_number FROM temp_calls WHERE call_sid = $1
Lookup(sid) == {r \in temp_calls : r.call_sid = sid}

\* DELETE FROM temp_calls WHERE call_sid = $1
DeleteTempCall(calls, sid) == {r \in calls : r.call_sid # sid}

\* ... FROM temp_calls [WHERE ...] ORDER BY created_at DESC LIMIT 1: the rows that
\* can come first (rows of equal created_at come in either order)
MostRecent(rows) == {r \in rows : \A q \in rows : q.created_at <= r.created_at}

\* a row of intake_responses
IntakeRow(id, contact_id, user_id, phone, cs, vals, goals, expectations, transcript, text) ==
    [id |-> id, contact_id |-> contact_id, user_id |-> user_id, phone_number |-> phone,
     communication_style |-> cs, values |-> vals, professional_goals |-> goals,
     partnership_expectations |-> expectations, raw_transcript |-> transcript,
     response_text |-> text]

\* the tables and the response a handler leaves
Outcome(c, cseq, calls, log, intake, iseq, r) ==
    [contacts |-> c, contacts_seq |-> cseq, temp_calls |-> calls, call_log |-> log,
     intake_responses |-> intake, intake_seq |-> iseq, res |-> r]

\* a handler that changed nothing (no statement ran, or ROLLBACK)
Unchanged(r) ==
    Outcome(contacts, contacts_seq, temp_calls, call_log, intake_responses, intake_seq, r)

Apply(o) ==
    /\ contacts' = o.contacts
    /\ contacts_seq' = o.contacts_seq
    /\ temp_calls' = o.temp_calls
    /\ call_log' = o.call_log
    /\ intake_responses' = o.intake_responses
    /\ intake_seq' = o.intake_seq
    /\ schema' = schema
    /\ res' = o.res

-----------------------------------------------------------------------------
(* Connection acquisition with retry: getClient (services/connectionManager.js
   and the database module at the end of routes/twilio.js) over
   retry-as-promised *)

\* max: 5, the number of tries retry-as-promised allows
MaxTries == 5

\* err.message of the errors pool.connect rejects with, word by word
ConnectionTerminated == <<"Connection", "terminated", "unexpectedly">>
ConnectionRefused == <<"connect", "ECONNREFUSED", "127.0.0.1:5432">>
TimeoutExceeded == <<"timeout", "exceeded", "when", "trying", "to", "connect">>
AuthenticationFailed == <<"password", "authentication", "failed", "for", "user">>

ConnectErrors ==
    {ConnectionTerminated, ConnectionRefused, TimeoutExceeded, AuthenticationFailed}

\* match: [...] of the getClient of routes/twilio.js
TransientPatterns ==
    {<<"Connection", "terminated">>, <<"Connection", "refused">>,
     <<"timeout", "exceeded">>, <<"ECONNREFUSED">>, <<"ENOTFOUND">>}

\* the options each getClient passes to retry-as-promised; without match the
\* library retries on every error
GetClientOptions(impl) ==
    IF impl = "connectionManager"
    THEN [max |-> MaxTries, match |-> {}]
    ELSE [max |-> MaxTries, match |-> TransientPatterns]

GetClientImpls == {"connectionManager", "twilio"}

\* a regular expression of match tested against err.message
MatchesError(match, err) == match = {} \/ \E m \in match : Like(err, m)

\* retry-as-promised retries whatever the number of tries made
ShouldRetryForever(options, current, err) == MatchesError(options.match, err)

\* retry-as-promised after a rejected try: it retries while tries are left and
\* the error matches
ShouldRetry(options, current, err) ==
    current < options.max /\ MatchesError(options.match, err)

\* no getClient call in flight
ConnIdle ==
    [state |-> "idle", impl |-> "none", attempts |-> 0, lastError |-> NULL,
     error |-> NULL, held |-> 0, released |-> 0, exit |-> "none",
     txn |-> FALSE, http |-> "none", row |-> NULL, calls |-> {}]

\* client.release() at the end of the try block only
ReleasesAtEndOfTry(op, exit) == exit = "completes"

\* client.release() stands in the finally block of every operation: it runs
\* however control leaves the try block
FinallyReleases(op, exit) == exit \in {"completes", "returns", "throws"}

-----------------------------------------------------------------------------
(* The state after construction: createTables has run and the contact-management
   flow has stored the contacts *)

Directories == {{Contact42}, {Contact42, Contact43}}

\* "created": the tables as createTables creates them; "extended": with the
\* columns updated_at of call_log and intake_responses and phone_number of
\* intake_responses
Schemas == {"created", "extended"}

\* a statement that names one of those columns fails on the created schema
HasExtendedColumns == schema = "extended"

Init ==
    /\ contacts \in Directories
    /\ contacts_seq = 43
    /\ temp_calls = {}
    /\ call_log = {}
    /\ intake_responses = {}
    /\ intake_seq = 0
    /\ parserTasks = {}
    /\ now = 0
    /\ schema \in Schemas
    /\ res = Response("start", NULL, 0, NULL)
    /\ conn = ConnIdle

-----------------------------------------------------------------------------
(* POST /voice (routes/twilio.js) *)

\* POST /voice on a temp_calls table without the UNIQUE constraint on call_sid
VoiceOutcomeWithoutUnique(req) ==
    Outcome(contacts, contacts_seq,
            temp_calls \cup {[call_sid |-> req.CallSid, phone_number |-> req.From,
                              created_at |-> now]},
            InsertCallLogDoNothing(call_log, req.CallSid, req.From, DefaultStatus),
            intake_responses, intake_seq,
            Response("voice", req, 200, NULL))

VoiceOutcome(req) ==
    IF \E r \in temp_calls : r.call_sid = req.CallSid
    THEN \* unique violation of temp_calls.call_sid: ROLLBACK, the spoken fallback
         Unchanged(Response("voice", req, 200, <<"technical difficulties">>))
    ELSE Outcome(contacts, contacts_seq,
                 temp_calls \cup {[call_sid |-> req.CallSid, phone_number |-> req.From,
                                   created_at |-> now]},
                 InsertCallLogDoNothing(call_log, req.CallSid, req.From, DefaultStatus),
                 intake_responses, intake_seq,
                 Response("voice", req, 200, NULL))

Voice(req) ==
    /\ Apply(VoiceOutcome(req))
    /\ UNCHANGED <<parserTasks, now, conn>>

-----------------------------------------------------------------------------
(* POST /twilio-personalization (routes/twilio.js) *)

\* req.secret: "unset" when ELEVENLABS_SECRET is not configured, else whether the
\* x-el-secret header equals it; req.dbFail: pool.connect or a query throws
PersonalizationOutcome(req) ==
    IF req.secret = "mismatch"
    THEN Unchanged(Response("personalization", req, 403, <<"Unauthorized">>))
    ELSE IF ~Truthy(req.caller_id) \/ ~Truthy(req.call_sid)
    THEN Unchanged(Response("personalization", req, 400, <<"Invalid payload">>))
    ELSE IF req.dbFail
    THEN Unchanged(Response("personalization", req, 200, <<"system error">>))
    ELSE LET found == {c \in contacts : c.phone_number = req.caller_id}
             status == IF found # {} THEN "existing_contact_personalization"
                       ELSE "unrecognized_caller"
         IN  Outcome(contacts, contacts_seq, temp_calls,
                     InsertCallLogDoNothing(call_log, req.call_sid, req.caller_id, status),
                     intake_responses, intake_seq,
                     Response("personalization", req, 200,
                              IF found # {} THEN NULL ELSE <<"Unknown Caller">>))

Personalization(req) ==
    /\ Apply(PersonalizationOutcome(req))
    /\ UNCHANGED <<parserTasks, now, conn>>

-----------------------------------------------------------------------------
(* POST /receive-data (routes/twilio.js) *)

\* the call_sid of the call_log row written for a direct caller:
\* callSid || `caller-${Date.now()}`
DirectCallerSid(body) ==
    IF Truthy(body.callSid) THEN body.callSid ELSE <<"caller-", DigitChar(now)>>

\* the resolution of the callback to a phone number: the set of results the
\* queries can give, each with call_log as the resolution leaves it
TwilioResolvePhone(body) ==
    IF Truthy(body.caller)
    THEN LET phoneNumber == NormalizePhone(body.caller)
         IN  {[ok |-> TRUE, phoneNumber |-> phoneNumber,
               call_log |-> InsertCallLogDoNothing(call_log, DirectCallerSid(body),
                                                   phoneNumber, "direct_caller")]}
    ELSE IF Truthy(body.callSid)
    THEN LET inTemp == {r \in temp_calls : r.call_sid = body.callSid}
             exact == {r \in call_log : Lower(r.call_sid) = Lower(body.callSid)}
             partial == {r \in call_log : Like(r.call_sid, SliceLast(body.callSid, 8))}
         IN  IF inTemp # {}
             THEN {[ok |-> TRUE, phoneNumber |-> r.phone_number, call_log |-> call_log] :
                      r \in inTemp}
             ELSE IF exact # {}
             THEN {[ok |-> TRUE, phoneNumber |-> r.phone_number, call_log |-> call_log] :
                      r \in exact}
             ELSE IF partial # {}
             THEN {[ok |-> TRUE, phoneNumber |-> r.phone_number, call_log |-> call_log] :
                      r \in partial}
             ELSE IF Truthy(body.phone_number)
             THEN LET phoneNumber == NormalizePhone(body.phone_number)
                  IN  {[ok |-> TRUE, phoneNumber |-> phoneNumber,
                        call_log |-> InsertCallLogDoNothing(call_log, body.callSid,
                                                            phoneNumber, "from_payload")]}
             ELSE {[ok |-> FALSE, status |-> 404, error |-> <<"Call not found">>]}
    ELSE {[ok |-> FALSE, status |-> 400, error |-> <<"Missing caller information">>]}

\* the contacts the two SELECTs of the callback branch return for a normalized phone
TwilioFindContacts(normalizedPhone) ==
    LET exact == {c \in contacts : c.phone_number = normalizedPhone}
        digitsOnly == StripLeadingPlus(normalizedPhone)
        loose == {c \in contacts :
                     \/ c.phone_number = digitsOnly
                     \/ c.phone_number = <<"+">> \o digitsOnly
                     \/ Like(c.phone_number, SliceLast(digitsOnly, 10))
                     \/ ReplacePlusDash(c.phone_number) = StripNonDigits(digitsOnly)}
    IN  IF exact # {} THEN exact ELSE loose

\* the 404 is answered without ROLLBACK: what the transaction wrote stays
RollbackMissing(before, written) == written

\* await client.query('ROLLBACK'): the table is as it was at BEGIN, whatever the
\* transaction wrote
Rollback(before, written) == before

\* the Eleven Labs callback branch: resolve, find the contact, insert, clean up
TwilioCallbackOutcomes(req) ==
    LET body == req.body
        persist(r, c) ==
            LET id == intake_seq + 1
                row == IntakeRow(id, c.id, c.user_id, NULL,
                                 Or(body.communication_style, NULL), Or(body.values, NULL),
                                 Or(body.professional_goals, NULL),
                                 Or(body.partnership_expectations, NULL),
                                 Or(body.raw_transcript, NULL), NULL)
                hasSid == Truthy(body.callSid)
            IN  Outcome(contacts, contacts_seq,
                        IF hasSid THEN DeleteTempCall(temp_calls, body.callSid)
                        ELSE temp_calls,
                        IF hasSid THEN MarkProcessed(r.call_log, body.callSid)
                        ELSE r.call_log,
                        intake_responses \cup {row}, id,
                        [Response("twilio_receive_data", req, 200, NULL)
                            EXCEPT !.contact_id = c.id, !.intake_id = id])
        after(r) ==
            IF ~r.ok
            THEN {Unchanged(Response("twilio_receive_data", req, r.status, r.error))}
            ELSE LET normalizedPhone == NormalizePhone(r.phoneNumber)
                     found == TwilioFindContacts(normalizedPhone)
                 IN  IF found = {}
                     THEN {Outcome(contacts, contacts_seq, temp_calls,
                                   Rollback(call_log, r.call_log),
                                   intake_responses, intake_seq,
                                   [Response("twilio_receive_data", req, 404,
                                             <<"Contact not found">>)
                                       EXCEPT !.normalized_phone = normalizedPhone])}
                     ELSE {persist(r, c) : c \in found}
    IN  UNION {after(r) : r \in TwilioResolvePhone(body)}

\* the branch of a request with a bearer token: free-text response of a user
TwilioJwtOutcome(req) ==
    LET phoneNumber == req.body.From
        userResponse == req.body.userResponse
        userId == TokenUserId
    IN  IF ~Truthy(phoneNumber) \/ ~Truthy(userResponse)
        THEN Unchanged(Response("twilio_receive_data", req, 400,
                                <<"Phone number and response are required">>))
        ELSE LET known == {c \in contacts : c.phone_number = phoneNumber}
                 newContact == [id |-> contacts_seq + 1, phone_number |-> phoneNumber,
                                user_id |-> userId]
                 contactId == IF known = {} THEN newContact.id
                              ELSE (CHOOSE c \in known : TRUE).id
                 id == intake_seq + 1
             IN  Outcome(IF known = {} THEN contacts \cup {newContact} ELSE contacts,
                         IF known = {} THEN contacts_seq + 1 ELSE contacts_seq,
                         temp_calls, call_log,
                         intake_responses \cup
                             {IntakeRow(id, contactId, userId, NULL, NULL, NULL, NULL,
                                        NULL, NULL, userResponse)},
                         id,
                         Response("twilio_receive_data", req, 200, NULL))

\* req.auth: "none" without an Authorization header, else whether jwt.verify accepts
TwilioReceiveDataOutcomes(req) ==
    LET isElevenLabsCallback == Truthy(req.body.callSid) \/ Truthy(req.body.caller)
    IN  IF isElevenLabsCallback THEN TwilioCallbackOutcomes(req)
        ELSE IF req.auth = "none"
        THEN {Unchanged(Response("twilio_receive_data", req, 403, <<"No token provided">>))}
        ELSE IF req.auth = "invalid"
        THEN {Unchanged(Response("twilio_receive_data", req, 401, <<"Unauthorized">>))}
        ELSE {TwilioJwtOutcome(req)}

TwilioReceiveData(req) ==
    /\ \E o \in TwilioReceiveDataOutcomes(req) : Apply(o)
    /\ UNCHANGED <<parserTasks, now, conn>>

-----------------------------------------------------------------------------
(* POST /receive-data (routes/intakeRoutes.js) *)

\* the phone number and session id the three lookups in temp_calls leave: by
\* call_sid, else by caller_id, else the most recent call
IntakeResolve(body) ==
    LET caller0 == Or(body.caller_id, NULL)
        callSid0 == Or(body.call_sid, Or(body.callSid, NULL))
        bySid == IF Truthy(callSid0) THEN {r \in temp_calls : r.call_sid = callSid0} ELSE {}
        callSidFound == bySid # {}
        phone1 == IF callSidFound THEN (CHOOSE r \in bySid : TRUE).phone_number ELSE caller0
        caller1 == IF callSidFound /\ ~Truthy(caller0) THEN phone1 ELSE caller0
        byPhone == IF ~callSidFound /\ Truthy(caller1)
                   THEN MostRecent({r \in temp_calls : r.phone_number = caller1})
                   ELSE {}
        step2 == IF byPhone = {}
                 THEN {[phoneNumber |-> phone1, callSid |-> callSid0]}
                 ELSE {[phoneNumber |-> r.phone_number, callSid |-> Or(callSid0, r.call_sid)] :
                          r \in byPhone}
        step3(x) == IF ~Truthy(x.phoneNumber) /\ ~Truthy(x.callSid) /\ temp_calls # {}
                    THEN {[phoneNumber |-> r.phone_number, callSid |-> r.call_sid] :
                             r \in MostRecent(temp_calls)}
                    ELSE {x}
    IN  UNION {step3(x) : x \in step2}

IntakeReceiveDataOutcomes(req) ==
    LET body == req.body
        after(x) ==
            IF ~Truthy(x.phoneNumber)
            THEN Unchanged(Response("intake_receive_data", req, 400,
                                    <<"Identification Failed">>))
            ELSE IF ~HasExtendedColumns
            THEN \* the INSERT INTO intake_responses (phone_number, ..., updated_at)
                 \* fails: ROLLBACK, 500
                 Unchanged(Response("intake_receive_data", req, 500,
                                    <<"Internal server error">>))
            ELSE LET hasSid == Truthy(x.callSid)
                     found == {c \in contacts : c.phone_number = x.phoneNumber}
                     contactId == IF found = {} THEN NULL_ID
                                  ELSE (CHOOSE c \in found : TRUE).id
                     userId == IF found = {} THEN NULL_ID
                               ELSE (CHOOSE c \in found : TRUE).user_id
                     id == intake_seq + 1
                     row == IntakeRow(id, contactId, userId, x.phoneNumber,
                                      Or(body.communication_style, NotProvided),
                                      Or(body.values, NotProvided),
                                      Or(body.professional_goals, NotProvided),
                                      Or(body.partnership_expectations, NotProvided),
                                      Or(body.raw_transcript, NotProvided), NULL)
                 IN  Outcome(contacts, contacts_seq,
                             IF hasSid THEN UpsertTempCall(temp_calls, x.callSid,
                                                           x.phoneNumber, now)
                             ELSE temp_calls,
                             IF hasSid THEN UpsertCallLogStatus(call_log, x.callSid,
                                                                x.phoneNumber,
                                                                "intake_received")
                             ELSE call_log,
                             intake_responses \cup {row}, id,
                             [Response("intake_receive_data", req, 200, NULL)
                                 EXCEPT !.intake_id = id])
    IN  {after(x) : x \in IntakeResolve(body)}

IntakeReceiveData(req) ==
    /\ \E o \in IntakeReceiveDataOutcomes(req) : Apply(o)
    /\ UNCHANGED <<parserTasks, now, conn>>

-----------------------------------------------------------------------------
(* The transcript parser (routes/intakeRoutes.js, services/intakeAgentService.js) *)

\* what parseTranscript returns for a transcript that is not empty
ParsedData ==
    [communication_style |-> <<"Parsed communication style">>,
     values |-> <<"Parsed values">>,
     professional_goals |-> <<"Parsed professional goals">>,
     partnership_expectations |-> <<"Parsed partnership expectations">>]

\* the UPDATE without its WHERE clause
updateIntakeEveryRow(intake, intakeResponseId, parsedData) ==
    {[r EXCEPT !.communication_style = parsedData.communication_style,
               !.values = parsedData.values,
               !.professional_goals = parsedData.professional_goals,
               !.partnership_expectations = parsedData.partnership_expectations]
     : r \in intake}

\* an UPDATE that keeps a column when the parsed object has no value for it
updateIntakeKeepingMissing(intake, intakeResponseId, parsedData) ==
    {IF r.id = intakeResponseId
     THEN [r EXCEPT !.communication_style = Or(parsedData.communication_style, @),
                    !.values = Or(parsedData.values, @),
                    !.professional_goals = Or(parsedData.professional_goals, @),
                    !.partnership_expectations = Or(parsedData.partnership_expectations, @)]
     ELSE r : r \in intake}

\* an UPDATE that appends the parsed text to the text a column holds
updateIntakeAppending(intake, intakeResponseId, parsedData) ==
    LET append(old, new) == IF Truthy(old) THEN old \o new ELSE new
    IN  {IF r.id = intakeResponseId
         THEN [r EXCEPT !.communication_style = append(@, parsedData.communication_style),
                        !.values = append(@, parsedData.values),
                        !.professional_goals = append(@, parsedData.professional_goals),
                        !.partnership_expectations =
                            append(@, parsedData.partnership_expectations)]
         ELSE r : r \in intake}

\* UPDATE intake_responses SET <the four fields> WHERE id = $5
updateIntakeWithParsedData(intake, intakeResponseId, parsedData) ==
    {IF r.id = intakeResponseId
     THEN [r EXCEPT !.communication_style = parsedData.communication_style,
                    !.values = parsedData.values,
                    !.professional_goals = parsedData.professional_goals,
                    !.partnership_expectations = parsedData.partnership_expectations]
     ELSE r : r \in intake}

\* POST /parse-transcript/:intakeId: starts processTranscriptAsync and answers at once
ParseTranscriptRoute(req) ==
    LET rows == {r \in intake_responses : r.id = req.intakeId}
        row == CHOOSE r \in rows : TRUE
    IN  /\ IF req.auth = "none"
           THEN /\ res' = Response("parse_transcript", req, 403, <<"No token provided">>)
                /\ UNCHANGED parserTasks
           ELSE IF req.auth = "invalid"
           THEN /\ res' = Response("parse_transcript", req, 401, <<"Unauthorized">>)
                /\ UNCHANGED parserTasks
           ELSE IF rows = {}
           THEN /\ res' = Response("parse_transcript", req, 404,
                                   <<"Intake response not found">>)
                /\ UNCHANGED parserTasks
           ELSE IF ~Truthy(row.raw_transcript)
           THEN /\ res' = Response("parse_transcript", req, 400,
                                   <<"No raw transcript available to parse">>)
                /\ UNCHANGED parserTasks
           ELSE /\ parserTasks' = parserTasks \cup
                                     {[id |-> row.id, raw_transcript |-> row.raw_transcript]}
                /\ res' = [Response("parse_transcript", req, 200, NULL)
                              EXCEPT !.intake_id = row.id]
        /\ UNCHANGED <<db, now, conn>>

\* processTranscriptAsync settles: parseTranscript throws on an empty transcript,
\* else its result is written by updateIntakeWithParsedData, whose UPDATE sets
\* updated_at and so fails on the created schema
ParserSettle(task) ==
    /\ task \in parserTasks
    /\ parserTasks' = parserTasks \ {task}
    /\ IF TrimIsEmpty(task.raw_transcript)
       THEN /\ res' = Response("parser", task, 0, <<"Empty transcript provided">>)
            /\ UNCHANGED intake_responses
       ELSE IF ~HasExtendedColumns
       THEN /\ res' = Response("parser", task, 0, <<"column updated_at does not exist">>)
            /\ UNCHANGED intake_responses
       ELSE /\ intake_responses' =
                   updateIntakeWithParsedData(intake_responses, task.id, ParsedData)
            /\ res' = [Response("parser", task, 0, NULL) EXCEPT !.intake_id = task.id]
    /\ UNCHANGED <<contacts, contacts_seq, temp_calls, call_log, intake_seq, now, conn, schema>>

-----------------------------------------------------------------------------
(* The retention sweep of temp_calls (dbService cleanupTempCalls, index.js) *)

\* cleanupTempCalls(pool, interval = '4 hours')
RetentionHours == 4

\* setInterval(..., 60 * 60 * 1000)
SweepPeriodHours == 1

\* DELETE FROM temp_calls WHERE created_at < NOW() - INTERVAL '<interval>'
cleanupTempCalls(calls, interval) == {r \in calls : ~(r.created_at < now - interval)}

\* the clock advances one hour
Tick ==
    /\ now < MaxTime
    /\ now' = now + 1
    /\ UNCHANGED <<db, parserTasks, res, conn>>

\* the hourly timer of index.js: its callback names `pool`, which index.js
\* declares only inside initializeDatabase, so evaluating the argument throws a
\* ReferenceError before cleanupTempCalls is called
ScheduledCleanup ==
    /\ now % SweepPeriodHours = 0
    /\ res' = Response("scheduled_cleanup", NULL, 0,
                       <<"ReferenceError: pool is not defined">>)
    /\ UNCHANGED <<db, parserTasks, now, conn>>

\* POST /cleanup-temp-calls behind verifyToken
CleanupTempCallsRoute(req) ==
    /\ IF req.auth = "none"
       THEN /\ res' = Response("cleanup_temp_calls", req, 403, <<"No token provided">>)
            /\ UNCHANGED temp_calls
       ELSE IF req.auth = "invalid"
       THEN /\ res' = Response("cleanup_temp_calls", req, 401, <<"Unauthorized">>)
            /\ UNCHANGED temp_calls
       ELSE /\ temp_calls' = cleanupTempCalls(temp_calls, req.interval)
            /\ res' = Response("cleanup_temp_calls", req, 200, NULL)
    /\ UNCHANGED <<contacts, contacts_seq, call_log, intake_responses, intake_seq,
                   parserTasks, now, conn, schema>>

-----------------------------------------------------------------------------
(* The requests the environment sends *)

\* a webhook with a transcript and no structured fields
TranscriptOnly(b) == [b EXCEPT !.raw_transcript = Transcript]

\* a webhook with the four structured fields and a transcript
Structured(b) ==
    [b EXCEPT !.communication_style = Answer, !.values = Answer,
              !.professional_goals = Answer, !.partnership_expectations = Answer,
              !.raw_transcript = Transcript]

\* an intake webhook of the voice provider: it carries no bearer token
Webhook(b) == [auth |-> "none", body |-> b]

VoiceRequests == {[From |-> PhoneE164, CallSid |-> SidA]}

PersonalizationRequests ==
    {[secret |-> "unset", caller_id |-> p, call_sid |-> SidA, dbFail |-> f] :
        p \in {PhoneE164, PhoneUnknown}, f \in BOOLEAN}
    \cup {[secret |-> k, caller_id |-> PhoneE164, call_sid |-> SidA, dbFail |-> FALSE] :
              k \in {"match", "mismatch"}}
    \cup {[secret |-> "unset", caller_id |-> NULL, call_sid |-> SidA, dbFail |-> FALSE],
          [secret |-> "unset", caller_id |-> PhoneE164, call_sid |-> NULL, dbFail |-> FALSE]}

\* the identifying fields of an intake webhook: a session id under either of its
\* names, a phone number under either of its names, both, or nothing
Identifiers ==
    {[EmptyBody EXCEPT !.callSid = SidA], [EmptyBody EXCEPT !.call_sid = SidA]}
    \cup {[EmptyBody EXCEPT !.caller = p] :
              p \in {PhoneE164, PhoneDigits, PhoneLast10, PhoneUnknown}}
    \cup {[EmptyBody EXCEPT !.caller_id = p] :
              p \in {PhoneE164, PhoneDigits, PhoneLast10, PhoneUnknown}}
    \cup {[EmptyBody EXCEPT !.callSid = SidA, !.caller = PhoneOther],
          [EmptyBody EXCEPT !.call_sid = SidA, !.caller_id = PhoneOther],
          [EmptyBody EXCEPT !.callSid = SidB, !.phone_number = PhoneE164],
          EmptyBody}

\* requests to POST /receive-data that resolve a contact or fail to
ResolveRequests ==
    {Webhook(TranscriptOnly(b)) : b \in Identifiers}
    \cup {[auth |-> a, body |-> EmptyBody] : a \in {"invalid", "valid"}}

\* deliveries of the webhook of one interview, and a direct API request
PipelineRequests ==
    {Webhook(TranscriptOnly([EmptyBody EXCEPT !.callSid = SidA, !.caller = PhoneE164])),
     Webhook(TranscriptOnly([EmptyBody EXCEPT !.call_sid = SidA, !.caller_id = PhoneE164])),
     Webhook(Structured([EmptyBody EXCEPT !.callSid = SidA])),
     [auth |-> "valid",
      body |-> [EmptyBody EXCEPT !.From = PhoneUnknown, !.userResponse = UserResponse]]}

ParseRequests ==
    {[auth |-> a, intakeId |-> 1] : a \in {"none", "invalid", "valid"}}
    \cup {[auth |-> "valid", intakeId |-> i] : i \in 1..(MaxIntake + 1)}

CleanupRequests ==
    {[auth |-> a, interval |-> RetentionHours] : a \in {"none", "invalid", "valid"}}

-----------------------------------------------------------------------------
(* Specifications *)

\* the pipeline of one interview: call start, personalization, deliveries of its
\* webhook, parsing
Next ==
    \/ \E req \in VoiceRequests : Voice(req)
    \/ \E req \in PersonalizationRequests : Personalization(req)
    \/ \E req \in PipelineRequests :
          TwilioReceiveData(req) /\ Cardinality(intake_responses') <= MaxIntake
    \/ \E req \in PipelineRequests :
          IntakeReceiveData(req) /\ Cardinality(intake_responses') <= MaxIntake
    \/ \E req \in ParseRequests :
          ParseTranscriptRoute(req) /\ Cardinality(parserTasks') <= MaxTasks
    \/ \E task \in parserTasks : ParserSettle(task)

Spec == Init /\ [][Next]_vars

\* identity resolution: every shape of identifying fields against one call
NextResolve ==
    \/ \E req \in VoiceRequests : Voice(req)
    \/ \E req \in ResolveRequests :
          TwilioReceiveData(req) /\ Cardinality(intake_responses') <= MaxResolved
    \/ \E req \in ResolveRequests :
          IntakeReceiveData(req) /\ Cardinality(intake_responses') <= MaxResolved

SpecResolve == Init /\ [][NextResolve]_vars

\* the Session Registry under the clock and the sweeps
NextSweep ==
    \/ \E req \in VoiceRequests : Voice(req)
    \/ Tick
    \/ ScheduledCleanup
    \/ \E req \in CleanupRequests : CleanupTempCallsRoute(req)

SpecSweep == Init /\ [][NextSweep]_vars

-----------------------------------------------------------------------------
(* POST /receive-data of the raw-transcript version of the intake router
   (unnamed/part_009) *)

\* callerPhone = '+15132017748'
FallbackPhone == <<"+", "1", "5", "1", "3", "2", "0", "1", "7", "7", "4", "8">>

\* !callerPhone || callerPhone === "unknown" || callerPhone === ""
InvalidCaller(p) == ~Truthy(p) \/ p = <<"unknown">>

\* the caller phone number the handler settles on: the lookups by call_sid name
\* `client` before its declaration, throw a ReferenceError that the handler
\* catches, and so never give a phone number
Part009CallerPhone(body) ==
    LET callerPhone == Or(body.caller_id, Or(body.caller, body.phone_number))
    IN  IF InvalidCaller(callerPhone) THEN FallbackPhone ELSE callerPhone

\* the statements of the handler a fault can hit; "none": every statement succeeds
Part009Faults == {"none", "insert", "update_call_log", "delete_temp_calls"}

\* processTranscriptAsync called before the INSERT is known to have succeeded
TasksStartedBeforeCommit(id, rawTranscript) ==
    IF Truthy(rawTranscript) THEN {[id |-> id, raw_transcript |-> rawTranscript]} ELSE {}

\* the catch block rolls back and answers 500; processTranscriptAsync stands
\* after COMMIT and is not reached
TasksAfterRollback(id, rawTranscript) == {}

\* req.fault names the statement that throws.  The SELECT on contacts and the
\* INSERT run between BEGIN and COMMIT; the UPDATE of call_log and the DELETE
\* from temp_calls run after COMMIT, each on its own, inside a try whose catch
\* only logs.  The outcome carries the parser tasks the handler starts.
Part009ReceiveDataOutcome(req) ==
    LET body == req.body
        callerPhone == Part009CallerPhone(body)
        callSid == Or(body.call_sid, body.callSid)
        found == {c \in contacts : c.phone_number = callerPhone}
        contact == CHOOSE c \in found : TRUE
        id == intake_seq + 1
        row == IntakeRow(id, contact.id, contact.user_id, NULL,
                         Or(body.communication_style, NULL), Or(body.values, NULL),
                         Or(body.professional_goals, NULL),
                         Or(body.partnership_expectations, NULL),
                         Or(body.raw_transcript, NULL), NULL)
        updated == IF Truthy(callSid) /\ req.fault # "update_call_log"
                   THEN MarkProcessed(call_log, callSid) ELSE call_log
        deleted == IF Truthy(callSid) /\ req.fault \notin {"update_call_log", "delete_temp_calls"}
                   THEN DeleteTempCall(temp_calls, callSid) ELSE temp_calls
        startsParser == /\ Truthy(body.raw_transcript)
                        /\ \/ ~Truthy(body.communication_style)
                           \/ ~Truthy(body.values)
                           \/ ~Truthy(body.professional_goals)
                           \/ ~Truthy(body.partnership_expectations)
    IN  IF found = {}
        THEN [db |-> Unchanged([Response("part009_receive_data", req, 404,
                                         <<"Contact not found">>)
                                   EXCEPT !.normalized_phone = callerPhone]),
              tasks |-> {}]
        ELSE IF req.fault = "insert"
        THEN [db |-> Unchanged(Response("part009_receive_data", req, 500,
                                        <<"Database error storing intake data">>)),
              tasks |-> TasksAfterRollback(id, body.raw_transcript)]
        ELSE [db |-> Outcome(contacts, contacts_seq, deleted, updated,
                             intake_responses \cup {row}, id,
                             [Response("part009_receive_data", req, 200, NULL)
                                 EXCEPT !.intake_id = id]),
              tasks |-> IF startsParser
                        THEN {[id |-> id, raw_transcript |-> body.raw_transcript]}
                        ELSE {}]

Part009ReceiveData(req) ==
    LET o == Part009ReceiveDataOutcome(req)
    IN  /\ Apply(o.db)
        /\ parserTasks' = parserTasks \cup o.tasks
        /\ UNCHANGED <<now, conn>>

-----------------------------------------------------------------------------
(* Database statements that fail inside the /receive-data handlers *)

\* the statements of the callback branch of routes/twilio.js a fault can hit
TwilioFaults == {"resolve", "contacts", "insert", "cleanup"}

\* whether the run that ends in outcome o of the callback branch executes the
\* statement: the resolution always runs a statement, the SELECT on contacts
\* follows a resolved phone number, the INSERT follows a contact, the UPDATE
\* and DELETE follow the INSERT when the body has a callSid
TwilioReaches(fault, req, o) ==
    CASE fault = "resolve" -> TRUE
      [] fault = "contacts" ->
            o.res.error \notin {<<"Call not found">>, <<"Missing caller information">>}
      [] fault = "insert" -> o.res.status = 200
      [] fault = "cleanup" -> o.res.status = 200 /\ Truthy(req.body.callSid)
      [] OTHER -> FALSE

\* catch: ROLLBACK, throw to the outer catch, 500
TwilioReceiveDataFaultOutcomes(req) ==
    {IF TwilioReaches(req.fault, req, o)
     THEN Unchanged(Response("twilio_receive_data", req, 500, <<"Failed to store data">>))
     ELSE o : o \in TwilioCallbackOutcomes(req)}

\* a callback of the voice provider during which the statement req.fault throws
TwilioReceiveDataFault(req) ==
    /\ Truthy(req.body.callSid) \/ Truthy(req.body.caller)
    /\ \E o \in TwilioReceiveDataFaultOutcomes(req) : Apply(o)
    /\ UNCHANGED <<parserTasks, now, conn>>

\* the statements of routes/intakeRoutes.js a fault can hit: the first lookup in
\* temp_calls, or a statement after the phone number is settled
IntakeFaults == {"lookup", "insert"}

\* A failed lookup is caught and logged, but PostgreSQL has aborted the
\* transaction and rejects every later statement of it: the later lookups fail
\* too, so the phone number stays the caller_id of the body, and the INSERT
\* fails and reaches the outer catch (ROLLBACK, 500).
IntakeReceiveDataFaultOutcomes(req) ==
    IF req.fault = "lookup"
    THEN IF ~Truthy(Or(req.body.caller_id, NULL))
         THEN \* no phone number: ROLLBACK and 400, or 500 when the ROLLBACK throws
              \* as well (the connection is lost)
              {Unchanged(Response("intake_receive_data", req, 400,
                                  <<"Identification Failed">>)),
               Unchanged(Response("intake_receive_data", req, 500,
                                  <<"Internal server error">>))}
         ELSE {Unchanged(Response("intake_receive_data", req, 500,
                                  <<"Internal server error">>))}
    ELSE {IF o.res.status = 400 THEN o
          ELSE Unchanged(Response("intake_receive_data", req, 500,
                                  <<"Internal server error">>)) :
             o \in IntakeReceiveDataOutcomes(req)}

IntakeReceiveDataFault(req) ==
    /\ \E o \in IntakeReceiveDataFaultOutcomes(req) : Apply(o)
    /\ UNCHANGED <<parserTasks, now, conn>>

\* webhooks of one call, each with the statement that fails while it is handled
FaultBodies ==
    {TranscriptOnly([EmptyBody EXCEPT !.callSid = SidA]),
     TranscriptOnly([EmptyBody EXCEPT !.call_sid = SidA]),
     TranscriptOnly([EmptyBody EXCEPT !.callSid = SidA, !.caller = PhoneE164]),
     TranscriptOnly([EmptyBody EXCEPT !.call_sid = SidA, !.caller_id = PhoneE164]),
     TranscriptOnly([EmptyBody EXCEPT !.caller_id = PhoneUnknown])}

FaultRequests(faults) ==
    {[auth |-> "none", body |-> b, fault |-> f] : b \in FaultBodies, f \in faults}

\* ingestion with failing statements, after a call start
NextFault ==
    \/ \E req \in VoiceRequests : Voice(req)
    \/ \E req \in FaultRequests(TwilioFaults) : TwilioReceiveDataFault(req)
    \/ \E req \in FaultRequests(IntakeFaults) : IntakeReceiveDataFault(req)
    \/ \E req \in FaultRequests(Part009Faults) :
          Part009ReceiveData(req) /\ Cardinality(intake_responses') <= MaxIntake
    \/ \E task \in parserTasks : ParserSettle(task)

SpecFault == Init /\ [][NextFault]_vars

-----------------------------------------------------------------------------
(* The writers of the Session Registry: call starts, also failing and repeated
   ones, and the webhooks of the calls *)

\* the INSERTs of POST /voice a fault can hit
VoiceFaults == {"temp_calls", "call_log"}

\* POST /voice without a transaction around its INSERTs: a failing INSERT INTO
\* call_log leaves the temp_calls row behind
VoiceFaultOutcomeWithoutRollback(req) ==
    Outcome(contacts, contacts_seq,
            IF req.fault = "call_log" /\ Lookup(req.CallSid) = {}
            THEN temp_calls \cup {[call_sid |-> req.CallSid, phone_number |-> req.From,
                                   created_at |-> now]}
            ELSE temp_calls,
            call_log, intake_responses, intake_seq,
            Response("voice", req, 200, <<"technical difficulties">>))

\* catch: ROLLBACK, throw to the outer catch, the spoken fallback
VoiceFaultOutcome(req) ==
    Unchanged(Response("voice", req, 200, <<"technical difficulties">>))

\* POST /voice during which the INSERT req.fault throws
VoiceFault(req) ==
    /\ req.fault \in VoiceFaults
    /\ Apply(VoiceFaultOutcome(req))
    /\ UNCHANGED <<parserTasks, now, conn>>

\* call-start events of two sessions, each from either of two numbers
CallStartRequests ==
    {[From |-> p, CallSid |-> sid] : p \in {PhoneE164, PhoneOther}, sid \in {SidA, SidB}}

CallStartFaultRequests ==
    {[From |-> PhoneE164, CallSid |-> sid, fault |-> f] :
        sid \in {SidA, SidB}, f \in VoiceFaults}

\* webhooks of session CA123
RegistryRequests ==
    {Webhook(TranscriptOnly(b)) :
        b \in {[EmptyBody EXCEPT !.callSid = SidA],
               [EmptyBody EXCEPT !.call_sid = SidA],
               [EmptyBody EXCEPT !.callSid = SidA, !.caller = PhoneOther],
               [EmptyBody EXCEPT !.call_sid = SidA, !.caller_id = PhoneOther]}}

NextRegistry ==
    \/ \E req \in CallStartRequests : Voice(req)
    \/ \E req \in CallStartFaultRequests : VoiceFault(req)
    \/ \E req \in PersonalizationRequests : Personalization(req)
    \/ \E req \in RegistryRequests :
          TwilioReceiveData(req) /\ Cardinality(intake_responses') <= MaxIntake
    \/ \E req \in RegistryRequests :
          IntakeReceiveData(req) /\ Cardinality(intake_responses') <= MaxIntake

SpecRegistry == Init /\ [][NextRegistry]_vars

-----------------------------------------------------------------------------
(* The transcript parser with the model call (unnamed/part_013), started by
   the raw-transcript version of the intake router (unnamed/part_009) *)

\* parser runs in flight at once
MaxRuns == 2

\* a transcript of white space: truthy, and empty once trimmed
Blank == <<" ">>

\* a JSON object the model call answers with; a name it leaves out is NULL
LlmAnswer(cs, csCamel, csMixed, goals, goalsCamel, vals, pe, peCamel) ==
    [communication_style |-> cs, communicationStyle |-> csCamel,
     communication_Style |-> csMixed,
     professional_goals |-> goals, professionalGoals |-> goalsCamel,
     values |-> vals,
     partnership_expectations |-> pe, partnershipExpectations |-> peCamel]

\* no answer yet
NoAnswer == LlmAnswer(NULL, NULL, NULL, NULL, NULL, NULL, NULL, NULL)

\* the four fields, three of them under camel-case names
AnswerCamel ==
    LlmAnswer(NULL, <<"style one">>, NULL, NULL, <<"goals one">>, <<"values one">>,
              NULL, <<"expectations one">>)

\* an answer with one field only: parseTranscript warns and returns it
AnswerShort ==
    LlmAnswer(NULL, NULL, <<"style two">>, NULL, NULL, NULL, NULL, NULL)

\* JSON.parse(response.data.choices[0].message.content): the model decides
LlmAnswers == {AnswerCamel, AnswerShort}

\* normalizedData of updateIntakeWithParsedData (part_013)
normalizedData(parsedData) ==
    [communication_style |->
         Or(Or(Or(parsedData.communication_style, parsedData.communicationStyle),
               parsedData.communication_Style), NULL),
     professional_goals |->
         Or(Or(Or(parsedData.professional_goals, parsedData.professionalGoals),
               parsedData.professional_goals), NULL),
     values |-> Or(parsedData.values, NULL),
     partnership_expectations |->
         Or(Or(parsedData.partnership_expectations, parsedData.partnershipExpectations),
            NULL)]

\* a call of processTranscriptAsync: stage is the await the call is suspended
\* at.  Calls in flight that agree in every field are one element of
\* parserTasks: they write the same values to the same row.
ParseRun(id, rawTranscript) ==
    [id |-> id, raw_transcript |-> rawTranscript, stage |-> "parse",
     parsed |-> NoAnswer]

\* POST /receive-data (part_009) with every statement succeeding; it calls
\* processTranscriptAsync without awaiting it
ParserIngestRequests ==
    {[fault |-> "none",
      body |-> [EmptyBody EXCEPT !.caller_id = PhoneE164, !.raw_transcript = t]] :
        t \in {Transcript, Blank}}

Part009Ingest(req) ==
    LET o == Part009ReceiveDataOutcome(req)
    IN  /\ Apply(o.db)
        /\ parserTasks' = parserTasks \cup
                             {ParseRun(t.id, t.raw_transcript) : t \in o.tasks}
        /\ UNCHANGED <<now, conn>>

\* POST /parse-transcript/:intakeId (part_009): no token is asked for
Part009ParseTranscriptRoute(req) ==
    LET rows == {r \in intake_responses : r.id = req.intakeId}
        row == CHOOSE r \in rows : TRUE
    IN  /\ IF rows = {}
           THEN /\ res' = Response("part009_parse_transcript", req, 404,
                                   <<"Intake response not found">>)
                /\ UNCHANGED parserTasks
           ELSE IF ~Truthy(row.raw_transcript)
           THEN /\ res' = Response("part009_parse_transcript", req, 400,
                                   <<"No raw transcript available to parse">>)
                /\ UNCHANGED parserTasks
           ELSE /\ parserTasks' = parserTasks \cup
                                     {ParseRun(row.id, row.raw_transcript)}
                /\ res' = [Response("part009_parse_transcript", req, 200, NULL)
                              EXCEPT !.intake_id = row.id]
        /\ UNCHANGED <<db, now, conn>>

Part009ParseRequests == {[intakeId |-> i] : i \in 1..(MaxIntake + 1)}

\* a parser that drops the row of a transcript it cannot parse
LlmParseTranscriptDroppingRow(run) ==
    /\ run \in parserTasks
    /\ run.stage = "parse"
    /\ \/ /\ parserTasks' = parserTasks \ {run}
          /\ intake_responses' = {r \in intake_responses : r.id # run.id}
          /\ res' = Response("parse", run, 0,
                             IF TrimIsEmpty(run.raw_transcript)
                             THEN <<"Empty transcript provided">>
                             ELSE <<"Request failed">>)
       \/ /\ ~TrimIsEmpty(run.raw_transcript)
          /\ \E answer \in LlmAnswers :
                /\ parserTasks' = (parserTasks \ {run}) \cup
                                     {[run EXCEPT !.stage = "update", !.parsed = answer]}
                /\ res' = [Response("parse", [run EXCEPT !.parsed = answer], 0, NULL)
                              EXCEPT !.intake_id = run.id]
                /\ UNCHANGED intake_responses
    /\ UNCHANGED <<contacts, contacts_seq, temp_calls, call_log, intake_seq, now, conn, schema>>

\* parseTranscript (part_013) returns inside processTranscriptAsync: it throws
\* on an empty transcript and when the model call or JSON.parse throws, else
\* it returns what the model answered
LlmParseTranscript(run) ==
    /\ run \in parserTasks
    /\ run.stage = "parse"
    /\ \/ /\ TrimIsEmpty(run.raw_transcript)
          /\ parserTasks' = parserTasks \ {run}
          /\ res' = Response("parse", run, 0, <<"Empty transcript provided">>)
       \/ /\ ~TrimIsEmpty(run.raw_transcript)
          /\ parserTasks' = parserTasks \ {run}
          /\ res' = Response("parse", run, 0, <<"Request failed">>)
       \/ /\ ~TrimIsEmpty(run.raw_transcript)
          /\ \E answer \in LlmAnswers :
                /\ parserTasks' = (parserTasks \ {run}) \cup
                                     {[run EXCEPT !.stage = "update", !.parsed = answer]}
                /\ res' = [Response("parse", [run EXCEPT !.parsed = answer], 0, NULL)
                              EXCEPT !.intake_id = run.id]
    /\ UNCHANGED <<db, now, conn>>

\* updateIntakeWithParsedData (part_013) runs inside processTranscriptAsync:
\* BEGIN, the one UPDATE with the normalized fields, COMMIT
LlmUpdateIntake(run) ==
    /\ run \in parserTasks
    /\ run.stage = "update"
    /\ parserTasks' = parserTasks \ {run}
    /\ intake_responses' =
           updateIntakeWithParsedData(intake_responses, run.id, normalizedData(run.parsed))
    /\ res' = [Response("update", run, 0, NULL) EXCEPT !.intake_id = run.id]
    /\ UNCHANGED <<contacts, contacts_seq, temp_calls, call_log, intake_seq, now, conn, schema>>

\* updateIntakeWithParsedData (services/intakeAgentService.js) called with an
\* id and an object of parsed fields; its UPDATE sets updated_at
UpdateIntakeCall(intakeResponseId, parsedData) ==
    LET call == [intakeResponseId |-> intakeResponseId, parsedData |-> parsedData]
    IN  /\ IF ~HasExtendedColumns
           THEN /\ res' = Response("update_call", call, 0,
                                   <<"column updated_at does not exist">>)
                /\ UNCHANGED intake_responses
           ELSE /\ intake_responses' =
                       updateIntakeWithParsedData(intake_responses, intakeResponseId,
                                                  parsedData)
                /\ res' = [Response("update_call", call, 0, NULL)
                              EXCEPT !.intake_id = intakeResponseId]
        /\ UNCHANGED <<contacts, contacts_seq, temp_calls, call_log, intake_seq,
                       parserTasks, now, conn, schema>>

\* the ids the function is called with: the newest row's, and the next id,
\* which no row has
UpdateCallIds == {intake_seq, intake_seq + 1} \ {NULL_ID}

\* the parser: ingestion, manual triggers, runs in flight together; a run is
\* served by the parser of part_013 or by that of services/intakeAgentService.js
NextParser ==
    \/ \E req \in ParserIngestRequests :
          /\ Part009Ingest(req)
          /\ Cardinality(intake_responses') <= MaxIntake
          /\ Cardinality(parserTasks') <= MaxRuns
    \/ \E req \in Part009ParseRequests :
          Part009ParseTranscriptRoute(req) /\ Cardinality(parserTasks') <= MaxRuns
    \/ \E run \in parserTasks : LlmParseTranscript(run)
    \/ \E run \in parserTasks : LlmUpdateIntake(run)
    \/ \E run \in parserTasks : run.stage = "parse" /\ ParserSettle(run)
    \/ \E id \in UpdateCallIds : UpdateIntakeCall(id, ParsedData)

SpecParser == Init /\ [][NextParser]_vars

-----------------------------------------------------------------------------
(* The manual reparse trigger of routes/intakeRoutes.js *)

\* rows ingested by routes/twilio.js, parsed on request, again and again
NextReparse ==
    \/ \E req \in PipelineRequests :
          TwilioReceiveData(req) /\ Cardinality(intake_responses') <= MaxIntake
    \/ \E req \in ParseRequests :
          ParseTranscriptRoute(req) /\ Cardinality(parserTasks') <= MaxTasks
    \/ \E task \in parserTasks : ParserSettle(task)

SpecReparse == Init /\ [][NextReparse]_vars

-----------------------------------------------------------------------------
(* POST /receive-data of the version of the twilio router that parses the
   transcript itself (unnamed/part_010) *)

\* extractField('call_sid') || extractField('callSid') || extractField('call_id')
Part010CallSid(body) == Or(Or(body.call_sid, body.callSid), NULL)

\* extractField('caller') || extractField('caller_id') || extractField('phone_number')
Part010Caller(body) == Or(Or(Or(body.caller, body.caller_id), body.phone_number), NULL)

\* what parseTranscriptWithOpenAI resolves to: the object the model answered
\* with, the fields its regular expressions found, or null after an error (a
\* null object and an object of four nulls read the same at parsedData?.x)
Part010NoParse ==
    [communication_style |-> NULL, values |-> NULL, professional_goals |-> NULL,
     partnership_expectations |-> NULL]

Part010ParseResults == {ParsedData, normalizedData(AnswerShort), Part010NoParse}

\* the resolution of the callback to a phone number, with call_log as the
\* resolution leaves it.  The INSERTs of the last branch have no ON CONFLICT.
Part010ResolvePhone(body) ==
    LET callSid == Part010CallSid(body)
        caller == Part010Caller(body)
        recent == MostRecent(temp_calls)
    IN  IF Truthy(caller)
        THEN LET phoneNumber == NormalizePhone(caller)
                 sid == IF Truthy(callSid) THEN callSid
                        ELSE <<"caller-", DigitChar(now)>>
             IN  {[ok |-> TRUE, phoneNumber |-> phoneNumber,
                   call_log |-> InsertCallLogDoNothing(call_log, sid, phoneNumber,
                                                       "direct_caller")]}
        ELSE IF Truthy(callSid)
        THEN LET inTemp == {r \in temp_calls : r.call_sid = callSid}
                 exact == {r \in call_log : Lower(r.call_sid) = Lower(callSid)}
                 partial == {r \in call_log : Like(r.call_sid, SliceLast(callSid, 8))}
             IN  IF inTemp # {}
                 THEN {[ok |-> TRUE, phoneNumber |-> r.phone_number,
                        call_log |-> call_log] : r \in inTemp}
                 ELSE IF exact # {}
                 THEN {[ok |-> TRUE, phoneNumber |-> r.phone_number,
                        call_log |-> call_log] : r \in exact}
                 ELSE IF partial # {}
                 THEN {[ok |-> TRUE, phoneNumber |-> r.phone_number,
                        call_log |-> call_log] : r \in partial}
                 ELSE IF recent # {}
                 THEN {[ok |-> TRUE, phoneNumber |-> r.phone_number,
                        call_log |-> InsertCallLogDoNothing(call_log, callSid,
                                                            r.phone_number,
                                                            "most_recent_call_fallback")] :
                          r \in recent}
                 ELSE {[ok |-> FALSE, status |-> 404, error |-> <<"Call not found">>]}
        ELSE IF recent # {}
        THEN {IF \E l \in call_log : l.call_sid = r.call_sid
              THEN [ok |-> FALSE, status |-> 500, error |-> <<"Failed to store data">>]
              ELSE [ok |-> TRUE, phoneNumber |-> r.phone_number,
                    call_log |-> InsertCallLogDoNothing(call_log, r.call_sid,
                                                        r.phone_number,
                                                        "most_recent_call_fallback")] :
                 r \in recent}
        ELSE {IF \E l \in call_log : l.call_sid = <<"fallback_sid">>
              THEN [ok |-> FALSE, status |-> 500, error |-> <<"Failed to store data">>]
              ELSE [ok |-> TRUE, phoneNumber |-> FallbackPhone,
                    call_log |-> InsertCallLogDoNothing(call_log, <<"fallback_sid">>,
                                                        FallbackPhone,
                                                        "default_number_fallback")]}

\* the transaction of the callback branch, run after parseTranscriptWithOpenAI
\* has resolved to parsedData: resolve, find the contact, insert, clean up
Part010CallbackOutcomes(req, parsedData) ==
    LET body == req.body
        callSid == Part010CallSid(body)
        persist(r, c) ==
            LET id == intake_seq + 1
                row == IntakeRow(id, c.id, c.user_id, NULL,
                                 Or(parsedData.communication_style,
                                    Or(body.communication_style, NULL)),
                                 Or(parsedData.values, Or(body.values, NULL)),
                                 Or(parsedData.professional_goals,
                                    Or(body.professional_goals, NULL)),
                                 Or(parsedData.partnership_expectations,
                                    Or(body.partnership_expectations, NULL)),
                                 Or(body.raw_transcript, NULL), NULL)
                hasSid == Truthy(callSid)
            IN  Outcome(contacts, contacts_seq,
                        IF hasSid THEN DeleteTempCall(temp_calls, callSid)
                        ELSE temp_calls,
                        IF hasSid THEN MarkProcessed(r.call_log, callSid)
                        ELSE r.call_log,
                        intake_responses \cup {row}, id,
                        [Response("part010_receive_data", req, 200, NULL)
                            EXCEPT !.contact_id = c.id, !.intake_id = id])
        after(r) ==
            IF ~r.ok
            THEN {Unchanged(Response("part010_receive_data", req, r.status, r.error))}
            ELSE LET normalizedPhone == NormalizePhone(r.phoneNumber)
                     found == TwilioFindContacts(normalizedPhone)
                 IN  IF found = {}
                     THEN {Unchanged([Response("part010_receive_data", req, 404,
                                               <<"Contact not found">>)
                                         EXCEPT !.normalized_phone = normalizedPhone])}
                     ELSE {persist(r, c) : c \in found}
    IN  UNION {after(r) : r \in Part010ResolvePhone(body)}

\* if (req.body.callSid || req.body.caller)
Part010IsCallback(req) == Truthy(req.body.callSid) \/ Truthy(req.body.caller)

\* the branch of a request that is no callback: token check, then the
\* free-text response of a user
Part010DirectOutcome(req) ==
    IF req.auth = "none"
    THEN Unchanged(Response("part010_receive_data", req, 403, <<"No token provided">>))
    ELSE IF req.auth = "invalid"
    THEN Unchanged(Response("part010_receive_data", req, 401, <<"Unauthorized">>))
    ELSE LET o == TwilioJwtOutcome(req)
         IN  [o EXCEPT !.res = [o.res EXCEPT !.op = "part010_receive_data"]]

\* the handler up to its first await.  A callback with a transcript calls
\* parseTranscriptWithOpenAI and waits for it: nothing is answered yet, and the
\* call in flight holds the request.  Every other request is handled at once.
Part010ReceiveData(req) ==
    IF Part010IsCallback(req) /\ Truthy(req.body.raw_transcript)
    THEN /\ parserTasks' = parserTasks \cup {[req |-> req]}
         /\ res' = Response("part010_awaits_parser", req, 0, NULL)
         /\ UNCHANGED <<db, now, conn>>
    ELSE /\ \E o \in (IF Part010IsCallback(req)
                      THEN Part010CallbackOutcomes(req, Part010NoParse)
                      ELSE {Part010DirectOutcome(req)}) : Apply(o)
         /\ UNCHANGED <<parserTasks, now, conn>>

\* parseTranscriptWithOpenAI resolves and the handler goes on to its
\* transaction and its response
Part010ParserReturns(call) ==
    /\ call \in parserTasks
    /\ parserTasks' = parserTasks \ {call}
    /\ \E parsedData \in Part010ParseResults :
          \E o \in Part010CallbackOutcomes(call.req, parsedData) : Apply(o)
    /\ UNCHANGED <<now, conn>>

\* webhooks served by the handler of part_010 beside the manual reparse
\* trigger of routes/intakeRoutes.js; parserTasks holds the calls of
\* parseTranscriptWithOpenAI a handler waits for (field req) and the runs of
\* processTranscriptAsync (field id)
NextAwait ==
    \/ \E req \in VoiceRequests : Voice(req)
    \/ \E req \in PipelineRequests :
          /\ Part010ReceiveData(req)
          /\ Cardinality(intake_responses') <= MaxIntake
          /\ Cardinality(parserTasks') <= MaxTasks
    \/ \E call \in parserTasks :
          /\ "req" \in DOMAIN call
          /\ Part010ParserReturns(call)
          /\ Cardinality(intake_responses') <= MaxIntake
    \/ \E req \in ParseRequests :
          ParseTranscriptRoute(req) /\ Cardinality(parserTasks') <= MaxTasks
    \/ \E task \in parserTasks : "id" \in DOMAIN task /\ ParserSettle(task)

SpecAwait == Init /\ [][NextAwait]_vars

-----------------------------------------------------------------------------
(* The Call Log lookups of POST /receive-data (routes/twilio.js) for session
   ids that no entry has *)

\* a session id of a call start
SidLong == <<"C", "A", "1", "2", "3", "4", "5", "6", "7", "8", "9">>

\* SidLong with another prefix: the same last 8 characters
SidDrifted == <<"X", "X", "1", "2", "3", "4", "5", "6", "7", "8", "9">>

\* a session id whose last 8 characters stand inside SidLong, not at its end
SidInner == <<"X", "X", "A", "1", "2", "3", "4", "5", "6", "7">>

\* a session id of fewer than 8 characters
SidShort == <<"1", "2", "3">>

SuffixCallStarts ==
    {[From |-> PhoneE164, CallSid |-> s] : s \in {SidLong, SidA}}

SuffixRequests ==
    {Webhook(TranscriptOnly([EmptyBody EXCEPT !.callSid = s])) :
        s \in {SidLong, SidDrifted, SidInner, SidShort}}

NextSuffix ==
    \/ \E req \in SuffixCallStarts : Voice(req)
    \/ \E req \in SuffixRequests :
          TwilioReceiveData(req) /\ Cardinality(intake_responses') <= MaxIntake

SpecSuffix == Init /\ [][NextSuffix]_vars

-----------------------------------------------------------------------------
(* The temp_calls admin routes (part_008, dbService) and the life of call_log *)

\* DELETE FROM temp_calls
clearAllTempCalls(calls) == {r \in calls : FALSE}

\* DELETE FROM temp_calls WHERE phone_number = $1
clearTempCallsByPhone(calls, phoneNumber) == {r \in calls : r.phone_number # phoneNumber}

\* DELETE /clear-temp-calls behind verifyToken
ClearTempCallsRoute(req) ==
    /\ IF req.auth = "none"
       THEN /\ res' = Response("clear_temp_calls", req, 403, <<"No token provided">>)
            /\ UNCHANGED temp_calls
       ELSE IF req.auth = "invalid"
       THEN /\ res' = Response("clear_temp_calls", req, 401, <<"Unauthorized">>)
            /\ UNCHANGED temp_calls
       ELSE /\ temp_calls' = clearAllTempCalls(temp_calls)
            /\ res' = Response("clear_temp_calls", req, 200, NULL)
    /\ UNCHANGED <<contacts, contacts_seq, call_log, intake_responses, intake_seq,
                   parserTasks, now, conn, schema>>

\* DELETE /clear-temp-calls/:phoneNumber behind verifyToken
ClearTempCallsByPhoneRoute(req) ==
    /\ IF req.auth = "none"
       THEN /\ res' = Response("clear_temp_calls_by_phone", req, 403, <<"No token provided">>)
            /\ UNCHANGED temp_calls
       ELSE IF req.auth = "invalid"
       THEN /\ res' = Response("clear_temp_calls_by_phone", req, 401, <<"Unauthorized">>)
            /\ UNCHANGED temp_calls
       ELSE /\ temp_calls' = clearTempCallsByPhone(temp_calls, req.phoneNumber)
            /\ res' = Response("clear_temp_calls_by_phone", req, 200, NULL)
    /\ UNCHANGED <<contacts, contacts_seq, call_log, intake_responses, intake_seq,
                   parserTasks, now, conn, schema>>

ClearRequests == {[auth |-> a] : a \in {"none", "invalid", "valid"}}

ClearByPhoneRequests ==
    {[auth |-> a, phoneNumber |-> p] :
        a \in {"none", "invalid", "valid"}, p \in {PhoneE164, PhoneOther}}

\* a second call is introduced by its personalization request
CallLogPersonalizationRequests ==
    {[secret |-> "unset", caller_id |-> PhoneOther, call_sid |-> SidB, dbFail |-> FALSE]}

\* the webhook of the first call: it carries the session id alone
CallLogWebhooks == {Webhook(TranscriptOnly([EmptyBody EXCEPT !.callSid = SidA]))}

\* calls that start, are personalized and deliver their webhook while time
\* passes and the registry is swept and cleared
NextCallLog ==
    \/ \E req \in VoiceRequests : Voice(req)
    \/ \E req \in CallLogPersonalizationRequests : Personalization(req)
    \/ \E req \in CallLogWebhooks :
          TwilioReceiveData(req) /\ Cardinality(intake_responses') <= MaxIntake
    \/ \E req \in CallLogWebhooks :
          IntakeReceiveData(req) /\ Cardinality(intake_responses') <= MaxIntake
    \/ Tick
    \/ \E req \in CleanupRequests : CleanupTempCallsRoute(req)
    \/ \E req \in ClearRequests : ClearTempCallsRoute(req)
    \/ \E req \in ClearByPhoneRequests : ClearTempCallsByPhoneRoute(req)

SpecCallLog == Init /\ [][NextCallLog]_vars

-----------------------------------------------------------------------------
(* Webhooks with some structured fields, then the parser (part_009, part_013) *)

\* webhooks that supply one or two structured fields themselves and a transcript
MergeIngestRequests ==
    {[fault |-> "none",
      body |-> [EmptyBody EXCEPT !.caller_id = PhoneE164, !.raw_transcript = Transcript,
                                 !.values = Answer]],
     [fault |-> "none",
      body |-> [EmptyBody EXCEPT !.caller_id = PhoneE164, !.raw_transcript = Transcript,
                                 !.communication_style = Answer,
                                 !.professional_goals = Answer]]}

NextMerge ==
    \/ \E req \in MergeIngestRequests :
          /\ Part009Ingest(req)
          /\ Cardinality(intake_responses') <= MaxIntake
          /\ Cardinality(parserTasks') <= MaxRuns
    \/ \E run \in parserTasks : LlmParseTranscript(run)
    \/ \E run \in parserTasks : LlmUpdateIntake(run)

SpecMerge == Init /\ [][NextMerge]_vars

-----------------------------------------------------------------------------
(* getClient step by step *)

\* getClient is called: retry-as-promised runs the callback for the first time
GetClientCall(impl) ==
    /\ conn.state = "idle"
    /\ conn' = [ConnIdle EXCEPT !.state = "trying", !.impl = impl]
    /\ res' = Response("getClient", impl, 0, NULL)
    /\ UNCHANGED <<db, parserTasks, now>>

\* one try: await pool.connect() resolves with a client or rejects
GetClientAttempt ==
    /\ conn.state = "trying"
    /\ \/ /\ conn' = [conn EXCEPT !.state = "resolved", !.attempts = @ + 1]
          /\ res' = Response("getClient_try", conn.impl, 200, NULL)
       \/ \E err \in ConnectErrors :
             /\ conn' = [conn EXCEPT
                            !.attempts = @ + 1,
                            !.lastError = err,
                            !.state = IF ShouldRetry(GetClientOptions(conn.impl),
                                                     conn.attempts + 1, err)
                                      THEN "backoff" ELSE "rejected",
                            !.error = IF ShouldRetry(GetClientOptions(conn.impl),
                                                     conn.attempts + 1, err)
                                      THEN NULL ELSE err]
             /\ res' = Response("getClient_try", conn.impl, 0, err)
    /\ UNCHANGED <<db, parserTasks, now>>

\* the backoff delay has passed: the callback runs again
GetClientBackoff ==
    /\ conn.state = "backoff"
    /\ conn' = [conn EXCEPT !.state = "trying"]
    /\ res' = Response("getClient_backoff", conn.impl, 0, NULL)
    /\ UNCHANGED <<db, parserTasks, now>>

\* the caller has the client or the error; the client goes back to the pool
GetClientSettled ==
    /\ conn.state \in {"resolved", "rejected"}
    /\ conn' = ConnIdle
    /\ res' = Response("getClient_settled", conn.impl, 0, conn.error)
    /\ UNCHANGED <<db, parserTasks, now>>

NextConnect ==
    \/ \E impl \in GetClientImpls : GetClientCall(impl)
    \/ GetClientAttempt
    \/ GetClientBackoff
    \/ GetClientSettled

SpecConnect == Init /\ [][NextConnect]_vars

-----------------------------------------------------------------------------
(* Borrowing a client: pool.connect(), try / catch / finally, client.release()
   as the pipeline operations do it *)

\* the operations that take a client of the pool
Borrowers ==
    {"voice", "twilio_personalization", "twilio_receive_data", "intake_receive_data",
     "parse_transcript", "updateIntakeWithParsedData"}

\* the operations that answer 4xx before they connect
ValidatesBeforeConnect(op) ==
    op \in {"twilio_personalization", "twilio_receive_data", "intake_receive_data"}

\* the ways control leaves the try block
TryExits == {"completes", "returns", "throws"}

\* the operation starts; it may answer before it asks for a client
BorrowStart(op) ==
    /\ conn.state = "idle"
    /\ \/ conn' = [ConnIdle EXCEPT !.state = "connect", !.impl = op]
       \/ /\ ValidatesBeforeConnect(op)
          /\ conn' = [ConnIdle EXCEPT !.state = "finished", !.impl = op]
    /\ res' = Response("borrow_start", op, 0, NULL)
    /\ UNCHANGED <<db, parserTasks, now>>

\* const client = await pool.connect()
BorrowConnect ==
    /\ conn.state = "connect"
    /\ \/ /\ conn' = [conn EXCEPT !.state = "try", !.held = @ + 1]
          /\ res' = Response("borrow_connect", conn.impl, 0, NULL)
       \/ \E err \in ConnectErrors :
             /\ conn' = [conn EXCEPT !.state = "finished", !.error = err]
             /\ res' = Response("borrow_connect", conn.impl, 0, err)
    /\ UNCHANGED <<db, parserTasks, now>>

\* the try block runs to its end, returns a response, or a query throws
BorrowTry ==
    /\ conn.state = "try"
    /\ \E exit \in TryExits :
          /\ conn' = [conn EXCEPT !.exit = exit,
                                  !.state = IF exit = "throws" THEN "catch" ELSE "finally"]
          /\ res' = Response("borrow_try", conn.impl, 0, <<exit>>)
    /\ UNCHANGED <<db, parserTasks, now>>

\* the catch block: ROLLBACK, which may throw as well, then respond or rethrow
BorrowCatch ==
    /\ conn.state = "catch"
    /\ \E rollback \in {"done", "throws"} :
          /\ conn' = [conn EXCEPT !.state = "finally"]
          /\ res' = Response("borrow_catch", conn.impl, 0, <<rollback>>)
    /\ UNCHANGED <<db, parserTasks, now>>

\* the finally block, on the way out of the try statement
BorrowFinally ==
    /\ conn.state = "finally"
    /\ conn' = IF FinallyReleases(conn.impl, conn.exit)
               THEN [conn EXCEPT !.state = "finished", !.held = @ - 1, !.released = @ + 1]
               ELSE [conn EXCEPT !.state = "finished"]
    /\ res' = Response("borrow_finally", conn.impl, 0, NULL)
    /\ UNCHANGED <<db, parserTasks, now>>

\* the next operation can start
BorrowFinished ==
    /\ conn.state = "finished"
    /\ conn' = ConnIdle
    /\ res' = Response("borrow_finished", conn.impl, 0, NULL)
    /\ UNCHANGED <<db, parserTasks, now>>

NextBorrow ==
    \/ \E op \in Borrowers : BorrowStart(op)
    \/ BorrowConnect
    \/ BorrowTry
    \/ BorrowCatch
    \/ BorrowFinally
    \/ BorrowFinished

SpecBorrow == Init /\ [][NextBorrow]_vars

-----------------------------------------------------------------------------
(* POST /contacts (routes/contacts.js): the insert, the text message and the
   commit, step by step *)

\* the contacts.id sequence is not followed past this value
MaxContactSeq == 46

\* /^\+?[1-9]\d{1,14}$/
IsE164(s) ==
    LET d == StripLeadingPlus(s)
    IN  /\ Len(d) >= 2
        /\ Len(d) <= 15
        /\ d[1] \in Digits \ {"0"}
        /\ \A i \in 2..Len(d) : d[i] \in Digits

\* req.twilio: TWILIO_ACCOUNT_SID, TWILIO_AUTH_TOKEN and TWILIO_PHONE_NUMBER are set
ContactRequests ==
    {[auth |-> a, phone_number |-> p, twilio |-> t] :
        a \in {"none", "valid"},
        p \in {PhoneE164, PhoneUnknown, PhoneLast10, <<"0", "1">>, NULL},
        t \in BOOLEAN}

\* verifyToken, the validation, pool.connect, BEGIN and the INSERT; with the
\* credentials set the handler then awaits twilioClient.messages.create
PostContactsInsert(req) ==
    /\ conn.state = "idle"
    /\ contacts_seq < MaxContactSeq
    /\ IF req.auth = "none"
       THEN /\ res' = Response("post_contacts", req, 403, <<"No token provided">>)
            /\ UNCHANGED <<conn, contacts_seq>>
       ELSE IF ~Truthy(req.phone_number)
       THEN /\ res' = Response("post_contacts", req, 400, <<"Missing required fields">>)
            /\ UNCHANGED <<conn, contacts_seq>>
       ELSE IF ~IsE164(req.phone_number)
       THEN /\ res' = Response("post_contacts", req, 400, <<"Invalid phone number format">>)
            /\ UNCHANGED <<conn, contacts_seq>>
       ELSE IF \E c \in contacts : c.phone_number = req.phone_number
       THEN \* unique violation 23505: ROLLBACK; the sequence keeps the value it gave
            /\ res' = Response("post_contacts", req, 400,
                               <<"Phone number already exists in contacts">>)
            /\ contacts_seq' = contacts_seq + 1
            /\ UNCHANGED conn
       ELSE /\ contacts_seq' = contacts_seq + 1
            /\ conn' = [ConnIdle EXCEPT
                           !.impl = "post_contacts",
                           !.held = 1,
                           !.txn = TRUE,
                           !.row = [id |-> contacts_seq + 1,
                                    phone_number |-> req.phone_number,
                                    user_id |-> TokenUserId],
                           !.state = IF req.twilio THEN "sms" ELSE "commit",
                           !.http = IF req.twilio THEN "sms" ELSE "none"]
            /\ res' = Response("post_contacts_insert", req, 0, NULL)
    /\ UNCHANGED <<contacts, temp_calls, call_log, intake_responses, intake_seq, schema,
                   parserTasks, now>>

\* twilioClient.messages.create settles: on an error the catch block rolls back
\* and the outer catch answers 500
PostContactsSmsSettles ==
    /\ conn.state = "sms"
    /\ \/ /\ conn' = [conn EXCEPT !.state = "commit", !.http = "none"]
          /\ res' = Response("post_contacts_sms", conn.row, 0, NULL)
       \/ /\ conn' = ConnIdle
          /\ res' = Response("post_contacts", conn.row, 500, <<"Failed to add contact">>)
    /\ UNCHANGED <<db, parserTasks, now>>

\* COMMIT, the 201 response, client.release()
PostContactsCommit ==
    /\ conn.state = "commit"
    /\ contacts' = contacts \cup {conn.row}
    /\ conn' = ConnIdle
    /\ res' = [Response("post_contacts", conn.row, 201, NULL) EXCEPT !.contact_id = conn.row.id]
    /\ UNCHANGED <<contacts_seq, temp_calls, call_log, intake_responses, intake_seq, schema,
                   parserTasks, now>>

NextContacts ==
    \/ \E req \in ContactRequests : PostContactsInsert(req)
    \/ PostContactsSmsSettles
    \/ PostContactsCommit

SpecContacts == Init /\ [][NextContacts]_vars

-----------------------------------------------------------------------------
(* POST /twilio-personalization of part_010: the temp_calls upsert in its own
   transaction, then the contact lookup and the call_log insert *)

\* INSERT INTO temp_calls (...) VALUES ($1, $2, NOW())
\*   ON CONFLICT (call_sid) DO UPDATE SET phone_number = EXCLUDED.phone_number
UpsertTempCallPhone(calls, sid, phone, t) ==
    IF \E r \in calls : r.call_sid = sid
    THEN {IF r.call_sid = sid THEN [r EXCEPT !.phone_number = phone] ELSE r : r \in calls}
    ELSE calls \cup {[call_sid |-> sid, phone_number |-> phone, created_at |-> t]}

Part010PersonalizationRequests ==
    {[secret |-> "unset", caller_id |-> p, call_sid |-> sid, dbFail |-> f] :
        p \in {PhoneE164, PhoneUnknown}, sid \in {SidA, SidB}, f \in BOOLEAN}
    \cup {[secret |-> "mismatch", caller_id |-> PhoneE164, call_sid |-> SidA,
           dbFail |-> FALSE],
          [secret |-> "unset", caller_id |-> NULL, call_sid |-> SidA, dbFail |-> FALSE]}

\* the secret and payload checks, then BEGIN, the upsert, COMMIT; req.dbFail:
\* the upsert throws, the catch block rolls back and the handler goes on
Part010PersonalizationStore(req) ==
    /\ conn.state = "idle"
    /\ IF req.secret = "mismatch"
       THEN /\ res' = Response("part010_personalization", req, 403, <<"Unauthorized">>)
            /\ UNCHANGED <<conn, temp_calls>>
       ELSE IF ~Truthy(req.caller_id) \/ ~Truthy(req.call_sid)
       THEN /\ res' = Response("part010_personalization", req, 400, <<"Invalid payload">>)
            /\ UNCHANGED <<conn, temp_calls>>
       ELSE /\ temp_calls' = IF req.dbFail THEN temp_calls
                             ELSE UpsertTempCallPhone(temp_calls, req.call_sid,
                                                      req.caller_id, now)
            /\ conn' = [ConnIdle EXCEPT !.state = "lookup",
                                        !.impl = "part010_personalization",
                                        !.held = 1, !.row = req]
            /\ res' = Response("part010_personalization_stored", req, 0, NULL)
    /\ UNCHANGED <<contacts, contacts_seq, call_log, intake_responses, intake_seq, schema,
                   parserTasks, now>>

\* the contact lookup and the call_log insert, outside any transaction; when a
\* query throws the outer catch answers 200 with the system-error prompt
Part010PersonalizationLog ==
    /\ conn.state = "lookup"
    /\ LET req == conn.row
           found == {c \in contacts : c.phone_number = req.caller_id}
           status == IF found # {} THEN "existing_contact_personalization"
                     ELSE "unrecognized_caller"
       IN  \/ /\ call_log' = InsertCallLogDoNothing(call_log, req.call_sid,
                                                    req.caller_id, status)
              /\ res' = Response("part010_personalization", req, 200,
                                 IF found # {} THEN NULL ELSE <<"Unknown Caller">>)
           \/ /\ UNCHANGED call_log
              /\ res' = Response("part010_personalization", req, 200, <<"system error">>)
    /\ conn' = ConnIdle
    /\ UNCHANGED <<contacts, contacts_seq, temp_calls, intake_responses, intake_seq, schema,
                   parserTasks, now>>

\* calls that are personalized by the router of part_010, start and deliver
\* their webhook
NextPersonalize ==
    \/ \E req \in Part010PersonalizationRequests : Part010PersonalizationStore(req)
    \/ Part010PersonalizationLog
    \/ \E req \in VoiceRequests : Voice(req)
    \/ \E req \in CallLogWebhooks :
          TwilioReceiveData(req) /\ Cardinality(intake_responses') <= MaxIntake

SpecPersonalize == Init /\ [][NextPersonalize]_vars

-----------------------------------------------------------------------------
(* processIntakeData (services/intakeAgentService.js): the SELECT by phone
   number, then the UPDATE or the INSERT, each on its own pool.query *)

\* processIntakeData calls in flight at a time
MaxCalls == 2

\* extractedData of POST /receive-data (part_009, second router)
ProcessIntakeData ==
    {[caller |-> p, communication_style |-> NULL, values |-> v,
      professional_goals |-> NULL, partnership_expectations |-> NULL,
      raw_transcript |-> Transcript] :
        p \in {PhoneE164, PhoneOther}, v \in {NULL, Answer}}

\* SELECT id FROM intake_responses WHERE phone_number = $1
ProcessIntakeCheck(data) ==
    /\ Cardinality(conn.calls) < MaxCalls
    /\ IF ~HasExtendedColumns
       THEN /\ res' = Response("process_intake", data, 500,
                               <<"column phone_number does not exist">>)
            /\ UNCHANGED conn
       ELSE /\ conn' = [conn EXCEPT !.calls =
                           @ \cup {[data |-> data,
                                    found |-> {r.id : r \in {x \in intake_responses :
                                                  x.phone_number = data.caller}}]}]
            /\ res' = Response("process_intake_check", data, 0, NULL)
    /\ UNCHANGED <<db, parserTasks, now>>

\* checkResult.rows.length > 0: UPDATE ... WHERE id = checkResult.rows[0].id;
\* else INSERT
ProcessIntakeWrite(call) ==
    /\ call \in conn.calls
    /\ conn' = [conn EXCEPT !.calls = @ \ {call}]
    /\ IF call.found # {}
       THEN \E intakeId \in call.found :
               /\ intake_responses' =
                      {IF r.id = intakeId
                       THEN [r EXCEPT !.communication_style = call.data.communication_style,
                                      !.values = call.data.values,
                                      !.professional_goals = call.data.professional_goals,
                                      !.partnership_expectations =
                                          call.data.partnership_expectations,
                                      !.raw_transcript = call.data.raw_transcript]
                       ELSE r : r \in intake_responses}
               /\ res' = [Response("process_intake", call.data, 200, NULL)
                             EXCEPT !.intake_id = intakeId]
               /\ UNCHANGED intake_seq
       ELSE /\ intake_responses' =
                   intake_responses \cup
                      {IntakeRow(intake_seq + 1, NULL_ID, NULL_ID, call.data.caller,
                                 call.data.communication_style, call.data.values,
                                 call.data.professional_goals,
                                 call.data.partnership_expectations,
                                 call.data.raw_transcript, NULL)}
            /\ intake_seq' = intake_seq + 1
            /\ res' = [Response("process_intake", call.data, 200, NULL)
                          EXCEPT !.intake_id = intake_seq + 1]
    /\ UNCHANGED <<contacts, contacts_seq, temp_calls, call_log, schema, parserTasks, now>>

NextProcessIntake ==
    \/ \E data \in ProcessIntakeData : ProcessIntakeCheck(data)
    \/ \E call \in conn.calls :
          ProcessIntakeWrite(call) /\ Cardinality(intake_responses') <= MaxIntake

SpecProcessIntake == Init /\ [][NextProcessIntake]_vars

-----------------------------------------------------------------------------
(* Properties *)

ReceiveDataOps == {"twilio_receive_data", "intake_receive_data"}

\* the session id of a webhook, under either of its names
SessionIdOf(body) == Or(body.call_sid, body.callSid)

\* the field a handler reads the direct caller phone number from
DirectPhoneOf(op, body) ==
    IF op = "twilio_receive_data" THEN body.caller ELSE body.caller_id

\* a webhook of the voice provider for the handler that answered: no bearer token
IsWebhook(r) == r.op \in ReceiveDataOps /\ r.req.auth = "none"

\* the rows a step added to intake_responses
NewRows == intake_responses' \ intake_responses

\* C1: when the webhook that was just ingested is delivered again to the same
\* handler (same session id, same payload), no second Intake Response row is added.
C1_IdempotentIngestion ==
    [][(/\ IsWebhook(res)
        /\ res.status = 200
        /\ Truthy(SessionIdOf(res.req.body))
        /\ res'.op = res.op
        /\ res'.req = res.req)
       => Cardinality(intake_responses') = Cardinality(intake_responses)]_vars

\* C2: a webhook with a direct caller phone number and a session id that the
\* Session Registry maps to a different phone number, when it is ingested, is
\* attributed to the contact stored under the direct phone number.
C2_DirectPhoneTakesPrecedence ==
    [][(/\ IsWebhook(res')
        /\ Truthy(SessionIdOf(res'.req.body))
        /\ Truthy(DirectPhoneOf(res'.op, res'.req.body))
        /\ \E t \in temp_calls :
              /\ t.call_sid = SessionIdOf(res'.req.body)
              /\ t.phone_number # DirectPhoneOf(res'.op, res'.req.body)
        /\ res'.status = 200)
       => \A row \in NewRows :
             \E c \in contacts :
                /\ c.id = row.contact_id
                /\ c.phone_number = DirectPhoneOf(res'.op, res'.req.body)]_vars

\* the handler Express reaches for POST /receive-data: the router of twilio.js is
\* mounted before the router of intakeRoutes.js and always answers
AppReceiveDataOp == "twilio_receive_data"

\* the identifying fields of a webhook body
IdentifierFields(body) ==
    <<body.callSid, body.call_sid, body.caller, body.caller_id, body.phone_number>>

\* two phone numbers with the same last ten digits
SamePhone(p, q) == SliceLast(StripNonDigits(p), 10) = SliceLast(StripNonDigits(q), 10)

\* C3: with the Session Registry holding (CA123 -> +15551234567) and the Contact
\* Directory holding contact 42 of user 7 under +15551234567, an unauthenticated
\* webhook whose only identifier is call_sid = CA123 is accepted by the
\* application and exactly one row is persisted, carrying (42, 7).
C3_ResolutionDeterminism ==
    [][(/\ res'.op = AppReceiveDataOp
        /\ res'.req.auth = "none"
        /\ IdentifierFields(res'.req.body) = <<NULL, SidA, NULL, NULL, NULL>>
        /\ [call_sid |-> SidA, phone_number |-> PhoneE164] \in
              {[call_sid |-> t.call_sid, phone_number |-> t.phone_number] : t \in temp_calls}
        /\ Contact42 \in contacts)
       => /\ res'.status = 200
          /\ Cardinality(NewRows) = 1
          /\ \A row \in NewRows : row.contact_id = 42 /\ row.user_id = 7]_vars

\* C4: a webhook whose caller phone number matches no contact of the Contact
\* Directory is answered 404 with the normalized phone number in the response,
\* and no Intake Response row is inserted, whichever handler takes it.
C4_UnknownContact ==
    [][(/\ IsWebhook(res')
        /\ ~Truthy(SessionIdOf(res'.req.body))
        /\ Truthy(DirectPhoneOf(res'.op, res'.req.body))
        /\ \A c \in contacts :
              ~SamePhone(c.phone_number, DirectPhoneOf(res'.op, res'.req.body)))
       => /\ res'.status = 404
          /\ res'.normalized_phone # NULL
          /\ SamePhone(res'.normalized_phone, DirectPhoneOf(res'.op, res'.req.body))
          /\ NewRows = {}]_vars

\* C5: against the single stored contact +15551234567, a webhook whose caller is
\* +15551234567, 15551234567 or 5551234567 is ingested and attributed to that
\* contact in all three cases, whichever handler takes it.
C5_PhoneNormalizationEquivalence ==
    [][(/\ IsWebhook(res')
        /\ contacts = {Contact42}
        /\ ~Truthy(SessionIdOf(res'.req.body))
        /\ DirectPhoneOf(res'.op, res'.req.body) \in {PhoneE164, PhoneDigits, PhoneLast10})
       => /\ res'.status = 200
          /\ Cardinality(NewRows) = 1
          /\ \A row \in NewRows : row.contact_id = Contact42.id]_vars

\* C6: a Call Log row whose status is processed keeps that status in every step.
C6_CallLogMonotonic ==
    [][\A r \in call_log :
          r.status = "processed"
             => \E q \in call_log' : q.call_sid = r.call_sid /\ q.status = "processed"]_vars

\* C7: no lookup returns a Session Registry entry that is older than the
\* retention window.
C7_SweepRetention ==
    \A sid \in {SidA, SidB} : \A r \in Lookup(sid) : now - r.created_at <= RetentionHours

StructuredFields ==
    {"communication_style", "values", "professional_goals", "partnership_expectations"}

\* C8: ingesting a webhook with a transcript and no structured field creates a
\* row whose four structured fields are null and whose transcript is the
\* webhook's; when the parser completes for a row, the row of that id has four
\* non-null structured fields and the transcript it had.
C8_AsyncBackfillConvergence ==
    [][/\ (/\ IsWebhook(res')
           /\ res'.status = 200
           /\ Truthy(res'.req.body.raw_transcript)
           /\ \A f \in StructuredFields : ~Truthy(res'.req.body[f]))
          => /\ Cardinality(NewRows) = 1
             /\ \A row \in NewRows :
                   /\ \A f \in StructuredFields : row[f] = NULL
                   /\ row.raw_transcript = res'.req.body.raw_transcript
       /\ (res'.op = "parser" /\ res'.error = NULL)
          => \A old \in intake_responses :
                old.id = res'.intake_id
                   => \E row \in intake_responses' :
                         /\ row.id = old.id
                         /\ \A f \in StructuredFields : Truthy(row[f])
                         /\ row.raw_transcript = old.raw_transcript]_vars

\* C9: every response of POST /twilio-personalization has status 200.
C9_PersonalizationAlways200 ==
    res.op = "personalization" => res.status = 200

\* C10: a webhook whose body has no session id and no phone number under any
\* accepted name is answered 400 and leaves every table as it was.
C10_NoIdentifierRejected ==
    [][(/\ IsWebhook(res')
        /\ IdentifierFields(res'.req.body) = <<NULL, NULL, NULL, NULL, NULL>>)
       => /\ res'.status = 400
          /\ db' = db]_vars

\* the statement req.fault is executed, and fails, while the handler op handles
\* req in the current state
FaultHit(op, req) ==
    CASE op = "twilio_receive_data" ->
            \E o \in TwilioCallbackOutcomes(req) : TwilioReaches(req.fault, req, o)
      [] op = "intake_receive_data" ->
            \/ req.fault = "lookup"
            \/ \E o \in IntakeReceiveDataOutcomes(req) : o.res.status # 400
      [] op = "part009_receive_data" ->
            /\ req.fault # "none"
            /\ \E c \in contacts : c.phone_number = Part009CallerPhone(req.body)
            /\ req.fault = "insert" \/ Truthy(SessionIdOf(req.body))
      [] OTHER -> FALSE

\* the step is an ingestion during which a statement failed after BEGIN
IngestionFailed(r) ==
    /\ r.op \in ReceiveDataOps \cup {"part009_receive_data"}
    /\ "fault" \in DOMAIN r.req
    /\ FaultHit(r.op, r.req)

\* C11: an ingestion during which a database statement fails after BEGIN is
\* answered 500 and leaves intake_responses, call_log and temp_calls as they were.
C11_AtomicIngestion ==
    [][IngestionFailed(res')
       => /\ res'.status = 500
          /\ intake_responses' = intake_responses
          /\ call_log' = call_log
          /\ temp_calls' = temp_calls]_vars

\* C12: after a webhook that carries a session id is ingested successfully, the
\* Call Log row of that session has status processed and the Session Registry
\* has no entry for that session id.
C12_PostPersistCleanup ==
    [][(/\ IsWebhook(res')
        /\ res'.status = 200
        /\ Truthy(SessionIdOf(res'.req.body)))
       => /\ \E r \in call_log' :
                r.call_sid = SessionIdOf(res'.req.body) /\ r.status = "processed"
          /\ \A t \in temp_calls' : t.call_sid # SessionIdOf(res'.req.body)]_vars

\* C13: a call start for a session id that the Session Registry already holds
\* succeeds, and the registry then holds exactly one entry for that session id,
\* with the phone number of this call start.
C13_RegistryPutIsUpsert ==
    [][(/\ res'.op = "voice"
        /\ "fault" \notin DOMAIN res'.req
        /\ Lookup(res'.req.CallSid) # {})
       => /\ res'.error = NULL
          /\ {t.phone_number : t \in {u \in temp_calls' : u.call_sid = res'.req.CallSid}}
                = {res'.req.From}]_vars

\* C14: the Session Registry holds at most one entry per session id.
C14_RegistryOneEntryPerSession ==
    \A t \in temp_calls : \A u \in temp_calls : t.call_sid = u.call_sid => t = u

\* a call start for a session id the registry holds under another phone number
\* has been handled
C14_ConflictingCallStartHandled ==
    /\ res.op = "voice"
    /\ "fault" \notin DOMAIN res.req
    /\ \E t \in temp_calls :
          t.call_sid = res.req.CallSid /\ t.phone_number # res.req.From

\* the step is a call start that leaves an entry of its session and number in
\* the Session Registry
RegistryHasCallStart ==
    \E t \in temp_calls' : t.call_sid = res'.req.CallSid /\ t.phone_number = res'.req.From

\* the step is a call start that added nothing to either table
CallStartAddedNothing == temp_calls' = temp_calls /\ call_log' = call_log

\* C15 as stated: after a call start either the Session Registry and the Call
\* Log both have an entry of its session id with the caller's number, or the
\* request added no entry to either table.
C15_CallStartWritesCallerNumber ==
    [][res'.op = "voice"
       => \/ /\ RegistryHasCallStart
             /\ \E r \in call_log' :
                   r.call_sid = res'.req.CallSid /\ r.phone_number = res'.req.From
          \/ CallStartAddedNothing]_vars

\* C15, amended: after a call start either the Session Registry has an entry of
\* its session id with the caller's number and the Call Log has an entry of that
\* session id (with the caller's number unless the Call Log held one before), or
\* the request added no entry to either table.
C15_CallStartAllOrNothing ==
    [][res'.op = "voice"
       => \/ /\ RegistryHasCallStart
             /\ \E r \in call_log' :
                   /\ r.call_sid = res'.req.CallSid
                   /\ r.phone_number = res'.req.From \/ r \in call_log
          \/ CallStartAddedNothing]_vars

\* a call start whose INSERT failed has been handled, and neither table has an
\* entry of its session id
C15_FailedCallStartLeftNothing ==
    /\ res.op = "voice"
    /\ "fault" \in DOMAIN res.req
    /\ Lookup(res.req.CallSid) = {}
    /\ \A r \in call_log : r.call_sid # res.req.CallSid

\* the handlers of the intake pipeline
PipelineOps == {"voice", "personalization"} \cup ReceiveDataOps

\* C16: no /voice, /twilio-personalization or /receive-data request changes the
\* contacts table.
C16_ContactsUntouched ==
    [][res'.op \in PipelineOps => contacts' = contacts]_vars

\* the steps that run updateIntakeWithParsedData
UpdateOps == {"update", "update_call", "parser"}

\* C17: updateIntakeWithParsedData inserts no row, leaves every row of another
\* id as it was, changes nothing but the four structured fields of the row of
\* the given id, and leaves the table as it was when no row has that id.
C17_InPlaceUpdateById ==
    [][res'.op \in UpdateOps
       => /\ Cardinality(intake_responses') = Cardinality(intake_responses)
          /\ \A old \in intake_responses :
                IF old.id = res'.intake_id
                THEN \E row \in intake_responses' :
                        \A f \in (DOMAIN old) \ StructuredFields : row[f] = old[f]
                ELSE old \in intake_responses'
          /\ (\A old \in intake_responses : old.id # res'.intake_id)
                => intake_responses' = intake_responses]_vars

\* a run has written its answer to one of two rows and the other row still has
\* no structured field
C17_OneRowOfTwoUpdated ==
    /\ res.op = "update"
    /\ Cardinality(intake_responses) = 2
    /\ \E row \in intake_responses :
          /\ row.id = res.intake_id
          /\ \A f \in StructuredFields : row[f] = normalizedData(res.req.parsed)[f]
          /\ Truthy(row.communication_style)
    /\ \E row \in intake_responses :
          /\ row.id # res.intake_id
          /\ \A f \in StructuredFields : row[f] = NULL

\* what one parse hands to the UPDATE
ParseResults == {ParsedData} \cup {normalizedData(answer) : answer \in LlmAnswers}

\* C18: whatever the interleaving of the parser runs for an intake record, the
\* four structured fields of its row are the four fields of one parse result
\* (or the four nulls of ingestion), never fields of two results.
C18_NoMixedParseResults ==
    \A row \in intake_responses :
       \/ \A f \in StructuredFields : row[f] = NULL
       \/ \E parsed \in ParseResults : \A f \in StructuredFields : row[f] = parsed[f]

\* of two runs for one row that hold different answers, one has written and the
\* other is about to
C18_TwoUpdatesInterleaved ==
    /\ res.op = "update"
    /\ \E row \in intake_responses :
          /\ row.id = res.intake_id
          /\ \A f \in StructuredFields : row[f] = normalizedData(res.req.parsed)[f]
    /\ \E run \in parserTasks :
          /\ run.id = res.intake_id
          /\ run.stage = "update"
          /\ run.parsed # res.req.parsed

\* the steps that run parseTranscript
ParseOps == {"parse", "parser"}

\* C19: when a run of the parser fails (empty transcript, failed model call),
\* the intake table is as it was before the step, the row of the run still has
\* the transcript the run was started with, and that transcript is one the
\* manual trigger accepts: POST /parse-transcript/:intakeId finds the row and
\* starts a run.
C19_ParseFailureLeavesRow ==
    [][(res'.op \in ParseOps /\ res'.error # NULL)
       => /\ intake_responses' = intake_responses
          /\ \E row \in intake_responses' :
                /\ row.id = res'.req.id
                /\ row.raw_transcript = res'.req.raw_transcript
                /\ Truthy(row.raw_transcript)]_vars

\* the model call of a run has failed and the row of the run has its transcript
\* and no structured field
C19_ModelCallFailed ==
    /\ res.op = "parse"
    /\ res.error = <<"Request failed">>
    /\ \E row \in intake_responses :
          /\ row.id = res.req.id
          /\ row.raw_transcript = Transcript
          /\ \A f \in StructuredFields : row[f] = NULL

AcknowledgingOps ==
    {"twilio_receive_data", "intake_receive_data", "part009_receive_data",
     "part010_receive_data", "parse_transcript", "part009_parse_transcript"}

\* C21: the step that answers an intake webhook or a manual reparse trigger
\* ends no parse (every parse in flight before the answer is in flight after
\* it), and the answer is the one every outcome of the parse would have led to.
C21_ResponseDoesNotAwaitParser ==
    [][res'.op \in AcknowledgingOps
       => /\ parserTasks \subseteq parserTasks'
          /\ \A call \in parserTasks \ parserTasks' :
                \A parsedData \in Part010ParseResults :
                   res' \in {o.res : o \in Part010CallbackOutcomes(call.req, parsedData)}]_vars

\* the handler of routes/intakeRoutes.js stored a webhook that names neither a
\* phone number nor a session id: the most-recent-session fallback resolved it
FallbackResolution(r) ==
    /\ r.op = "intake_receive_data"
    /\ r.status = 200
    /\ ~Truthy(r.req.body.caller_id)
    /\ ~Truthy(r.req.body.call_sid)
    /\ ~Truthy(r.req.body.callSid)

\* C22: the tables a fallback resolution leaves differ from the tables the
\* same webhook would have left had it named the session it was resolved to.
C22_FallbackIsMarked ==
    [][FallbackResolution(res')
       => \A t \in temp_calls :
             \A o \in IntakeReceiveDataOutcomes(
                          [res'.req EXCEPT !.body.call_sid = t.call_sid]) :
                <<o.temp_calls, o.call_log, o.intake_responses>>
                   # <<temp_calls', call_log', intake_responses'>>]_vars

\* the session id as the handler that answered reads it
HandlerSessionId(op, body) ==
    IF op = "twilio_receive_data" THEN body.callSid ELSE SessionIdOf(body)

\* a webhook that carries a session id and no phone number
SessionIdOnly(r) ==
    /\ IsWebhook(r)
    /\ Truthy(HandlerSessionId(r.op, r.req.body))
    /\ ~Truthy(r.req.body.caller)
    /\ ~Truthy(r.req.body.caller_id)
    /\ ~Truthy(r.req.body.phone_number)

\* the contacts stored under a phone number
ContactsOf(phone) == {c \in contacts : c.phone_number = phone}

\* the phone numbers the Call Log has for a session id
CallLogPhones(sid) == {l.phone_number : l \in {x \in call_log : x.call_sid = sid}}

\* C23: a webhook that carries only a session id whose Session Registry entry
\* is gone while the Call Log has the session is stored for the contact of the
\* Call Log's phone number; and while the registry entry is there, the contact
\* the webhook is stored for is that same contact (none, when the Call Log's
\* phone number has no contact).
C23_DegradesToCallLog ==
    [][SessionIdOnly(res')
       => LET sid == HandlerSessionId(res'.op, res'.req.body)
              known == UNION {ContactsOf(p) : p \in CallLogPhones(sid)}
          IN  /\ (Lookup(sid) = {} /\ known # {})
                 => \E row \in NewRows : \E c \in known : row.contact_id = c.id
              /\ (Lookup(sid) # {} /\ CallLogPhones(sid) # {})
                 => \A row \in NewRows :
                       IF known = {} THEN row.contact_id = NULL_ID
                       ELSE \E c \in known : row.contact_id = c.id]_vars

\* s ends with suffix
EndsWith(s, suffix) == Len(s) >= Len(suffix) /\ SliceLast(s, Len(suffix)) = suffix

\* C24: when routes/twilio.js resolves a webhook through the suffix lookup of
\* the Call Log (session id only, no registry entry, no entry of that session
\* id in the Call Log), the queried session id has at least 8 characters and
\* an entry of the Call Log ends with its last 8 characters.
C24_SuffixLookupIsTrailing ==
    [][(/\ res'.op = "twilio_receive_data"
        /\ SessionIdOnly(res')
        /\ Lookup(res'.req.body.callSid) = {}
        /\ \A l \in call_log : Lower(l.call_sid) # Lower(res'.req.body.callSid)
        /\ res'.error # <<"Call not found">>)
       => /\ Len(res'.req.body.callSid) >= 8
          /\ \E l \in call_log :
                EndsWith(l.call_sid, SliceLast(res'.req.body.callSid, 8))]_vars

\* the handlers that ingest the intake webhook
IngestionOps == ReceiveDataOps \cup {"part009_receive_data"}

\* C25: a successful ingestion of a webhook with a transcript and a structured
\* field missing starts exactly one parser task, for the row it stored; a
\* successful ingestion of a webhook with all four structured fields starts
\* none.
C25_ParserScheduledWhenNeeded ==
    [][(/\ res'.op \in IngestionOps
        /\ res'.req.auth = "none"
        /\ res'.status = 200)
       => LET body == res'.req.body
              complete == \A f \in StructuredFields : Truthy(body[f])
          IN  /\ (Truthy(body.raw_transcript) /\ ~complete)
                 => \E row \in NewRows :
                       parserTasks' \ parserTasks =
                           {[id |-> row.id, raw_transcript |-> row.raw_transcript]}
              /\ complete => parserTasks' = parserTasks]_vars

\* the statuses the /receive-data handlers write for a session they resolved
ResolvedStatuses == {"processed", "intake_received"}

\* C26: when a webhook with a session id and no phone number is stored after a
\* resolution through the Session Registry or the Call Log, the Session
\* Registry entry of the session, where the step leaves one, has the current
\* time, and the Call Log has an entry of the session with a status the
\* handler wrote.
C26_ResolutionRefreshesAndLogs ==
    [][(/\ SessionIdOnly(res')
        /\ res'.status = 200
        /\ NewRows # {})
       => LET sid == HandlerSessionId(res'.op, res'.req.body)
          IN  /\ \A t \in temp_calls' : t.call_sid = sid => t.created_at = now
              /\ \E l \in call_log' : l.call_sid = sid /\ l.status \in ResolvedStatuses]_vars

\* a personalization request that was handled: it passed the secret and the
\* payload checks and its queries ran
PersonalizationHandled(r) ==
    /\ r.op = "personalization"
    /\ r.status = 200
    /\ r.error # <<"system error">>

\* C27: after a handled personalization request with session id s and caller
\* p, the Session Registry has an entry for s and every entry for s has phone
\* number p.
C27_PersonalizationRegistersSession ==
    [][PersonalizationHandled(res')
       => /\ \E t \in temp_calls' : t.call_sid = res'.req.call_sid
          /\ \A t \in temp_calls' :
                t.call_sid = res'.req.call_sid => t.phone_number = res'.req.caller_id]_vars

\* the statuses POST /twilio-personalization writes into the Call Log
PersonalizationStatuses == {"existing_contact_personalization", "unrecognized_caller"}

\* C28: when a personalization request is handled for a session id whose Call
\* Log entry has the status of the call start, every Call Log entry of the
\* session has a personalization status afterwards.
C28_PersonalizationUpdatesStatus ==
    [][(/\ PersonalizationHandled(res')
        /\ \E l \in call_log : l.call_sid = res'.req.call_sid /\ l.status = DefaultStatus)
       => \A l \in call_log' :
             l.call_sid = res'.req.call_sid => l.status \in PersonalizationStatuses]_vars

\* C29: a Call Log entry is never removed: every session id that has a Call Log
\* entry before a step has one after it.
C29_CallLogNeverDeleted ==
    [][\A l \in call_log : \E m \in call_log' : m.call_sid = l.call_sid]_vars

\* the registry was cleared after the call was processed, and the Call Log
\* still has the call
C29_ClearedRegistryKeepsLog ==
    /\ res.op \in {"clear_temp_calls", "clear_temp_calls_by_phone"}
    /\ res.status = 200
    /\ temp_calls = {}
    /\ \E l \in call_log : l.processed

\* C30: after a webhook that carries a session id is stored, the Call Log has
\* an entry with that session id and status processed, whether or not it had
\* one before.
C30_ProcessedEntryCreated ==
    [][(/\ IsWebhook(res')
        /\ res'.status = 200
        /\ NewRows # {}
        /\ Truthy(HandlerSessionId(res'.op, res'.req.body)))
       => \E l \in call_log' :
             /\ l.call_sid = HandlerSessionId(res'.op, res'.req.body)
             /\ l.status = "processed"]_vars

\* C31: when the parser's update runs with a result that has no value for a
\* field the webhook supplied, the row keeps the value the webhook supplied.
C31_DirectFieldsKept ==
    [][res'.op = "update"
       => \A row \in intake_responses :
             row.id = res'.intake_id
             => \A f \in StructuredFields :
                   (row[f] = Answer /\ normalizedData(res'.req.parsed)[f] = NULL)
                   => \E after \in intake_responses' :
                         after.id = row.id /\ after[f] = Answer]_vars

TransientError(err) == \E m \in TransientPatterns : Like(err, m)

\* C33: when a try of getClient fails with an error that is not a transient
\* connection failure, the call is rejected with that error at once and no
\* further try follows.
C33_OnlyTransientRetried ==
    [][(/\ res'.op = "getClient_try"
        /\ res'.error # NULL
        /\ ~TransientError(res'.error))
       => /\ conn'.state = "rejected"
          /\ conn'.error = res'.error]_vars

C35_NoTransactionAcrossHttpCall ==
    ~(conn.txn /\ conn.http # "none")

\* every handler of POST /receive-data
AllReceiveDataOps == IngestionOps \cup {"part010_receive_data"}

\* C36: when POST /receive-data answers 404 or 400, the Session Registry, the
\* Call Log and the Intake Responses are as they were before the request.
C36_FailedResolutionChangesNothing ==
    [][(res'.op \in AllReceiveDataOps /\ res'.status \in {400, 404})
       => /\ temp_calls' = temp_calls
          /\ call_log' = call_log
          /\ intake_responses' = intake_responses]_vars

\* a webhook with a direct caller was answered 404 (no such contact) and the
\* Call Log row written for the caller is gone
C36_DirectCallerRolledBack ==
    /\ res.op = "twilio_receive_data"
    /\ res.status = 404
    /\ Truthy(res.req.body.caller)
    /\ \A l \in call_log : l.status # "direct_caller"

\* C37: every session id that has a Session Registry entry has a Call Log entry.
C37_RegistryImpliesCallLog ==
    \A t \in temp_calls : \E l \in call_log : l.call_sid = t.call_sid

\* C38: whatever the interleaving of processIntakeData calls, no two rows of
\* intake_responses have the same phone number.
C38_OneRowPerPhone ==
    \A r1, r2 \in intake_responses :
       (r1.phone_number # NULL /\ r1.phone_number = r2.phone_number) => r1.id = r2.id

\* C39: every parser task in flight is for a committed row: the table has the
\* row of its id, with the transcript the task was started with.
C39_ParserStartsAfterCommit ==
    \A task \in parserTasks :
       \E row \in intake_responses :
          row.id = task.id /\ row.raw_transcript = task.raw_transcript

\* the handler of part_009 has committed a row and started the parser for it
C39_TaskForCommittedRow ==
    /\ res.op = "part009_receive_data"
    /\ res.status = 200
    /\ \E task \in parserTasks : task.id = res.intake_id
    /\ \E row \in intake_responses : row.id = res.intake_id

\* C40: the phone number of a Call Log entry never changes: an entry that a
\* session id has after a step has the phone number the entry had before it.
C40_CallLogPhoneFixed ==
    [][\A l \in call_log : \A m \in call_log' :
          m.call_sid = l.call_sid => m.phone_number = l.phone_number]_vars

\* a webhook has refreshed the Session Registry entry of a session with a number
\* other than the one the Call Log has for it
C40_RegistryRefreshedWithOtherNumber ==
    /\ res.op = "intake_receive_data"
    /\ res.status = 200
    /\ \E t \in temp_calls : \E l \in call_log :
          /\ t.call_sid = l.call_sid
          /\ t.phone_number # l.phone_number
          /\ l.status = "intake_received"

====
